---- MODULE Spec2Model ----
(***************************************************************************)
(* Model of the streaming client of pplx: the entry merge engine and the   *)
(* StreamAccumulator (packages/api/src/stream.ts), the SSE payload decoder  *)
(* parseEventStream, and PerplexityClient.stream / reconnect / ask           *)
(* (packages/api/src/client.ts).                                            *)
(* It also models the Socket.IO RPC socket PerplexitySocket of the CLI     *)
(* (packages/cli/src/auth.ts): handshake, heartbeat, acknowledged calls.   *)
(*                                                                         *)
(* JavaScript values are modelled as follows.                               *)
(*   - an object is a function from its present keys to their values, so   *)
(*     an absent (undefined) property is a key outside DOMAIN;              *)
(*   - a text that the code slices, joins or tests with startsWith (a       *)
(*     chunk, an answer) is a sequence of characters;                       *)
(*   - a text that the code only compares or passes on (status, text,       *)
(*     error_code) is a TLA+ string;                                        *)
(*   - an array is a sequence.                                              *)
(***************************************************************************)
EXTENDS Integers, Sequences, FiniteSets, TLC

(***************************************************************************)
(* Bounds of the model.                                                    *)
(***************************************************************************)
\* longest chunk sequence one incoming markdown payload carries
MaxChunks == 2
\* largest chunk_starting_offset one incoming markdown payload carries
MaxOffset == 2
\* number of update calls made on a bare accumulator
MaxUpdates == 2
\* number of SSE events the server sends on one response body
MaxPayloads == 3
\* number of SSE events one reader.read() completes
MaxEvents == 2
\* number of inbound frames one socket handles
MaxFrames == 4
\* number of emitWithAck calls made on one socket
MaxCalls == 2
\* number of close() calls made on one socket
MaxCloses == 2

(***************************************************************************)
(* Objects, texts and arrays.                                              *)
(***************************************************************************)
EmptyObj == [k \in {} |-> TRUE]

\* the value of an expression that evaluates to undefined
Undefined == [undefined |-> TRUE]

Has(o, k) == k \in DOMAIN o

\* a variant in which the fields of a win
SpreadKeep(a, b) ==
    [k \in DOMAIN a \cup DOMAIN b |-> IF k \in DOMAIN a THEN a[k] ELSE b[k]]

\* { ...a, ...b }
Spread(a, b) ==
    [k \in DOMAIN a \cup DOMAIN b |-> IF k \in DOMAIN b THEN b[k] ELSE a[k]]

\* { ...o, [k]: v }
With(o, k, v) == [j \in DOMAIN o \cup {k} |-> IF j = k THEN v ELSE o[j]]

\* o without the property k
Without(o, k) == [j \in DOMAIN o \ {k} |-> o[j]]

\* Array.prototype.slice(0, end) for an integer end
\* (a negative end counts from the end of the array)
SliceTo(s, end) ==
    LET e == IF end < 0 THEN (IF Len(s) + end < 0 THEN 0 ELSE Len(s) + end)
             ELSE (IF end > Len(s) THEN Len(s) ELSE end)
    IN  SubSeq(s, 1, e)

\* String.prototype.slice(start) for 0 <= start
SliceFrom(s, start) ==
    IF start >= Len(s) THEN <<>> ELSE SubSeq(s, start + 1, Len(s))

\* String.prototype.startsWith
StartsWith(s, p) == Len(p) <= Len(s) /\ SubSeq(s, 1, Len(p)) = p

RECURSIVE Join(_)
\* Array.prototype.join("")
Join(chunks) ==
    IF chunks = <<>> THEN <<>> ELSE Head(chunks) \o Join(Tail(chunks))

\* String.prototype.includes, on a key made of words
Includes(key, word) == \E i \in 1..Len(key) : key[i] = word

(***************************************************************************)
(* JSON values whose type the code does not know (a parsed payload, the    *)
(* target field of a diff_block, the value of a patch) carry their type.   *)
(***************************************************************************)
JNull == [t |-> "null"]
JNumber(n) == [t |-> "number", n |-> n]
JString(s) == [t |-> "string", s |-> s]
JObject(o) == [t |-> "object", o |-> o]

(***************************************************************************)
(* applyPatch(document, patches, false, false) of fast-json-patch: no      *)
(* validation, the document cloned first.  A path is the sequence of its   *)
(* segments, path.split("/"): "" is <<"">>, "/k" is <<"", "k">>, "k" is    *)
(* <<"k">>.  Documents are strings, objects and null; the operations are   *)
(* add, replace, remove and test.  A result is [ok, doc]; ok is FALSE when *)
(* the library throws.                                                     *)
(***************************************************************************)
Thrown == [ok |-> FALSE]
Applied(doc) == [ok |-> TRUE, doc |-> doc]

\* objOps[op].call(operation, obj, key, document) at the last segment
LeafOp(obj, key, op) ==
    IF obj = Undefined \/ obj = JNull THEN Thrown
    ELSE IF obj.t = "object"
    THEN CASE op.op \in {"add", "replace"} -> Applied(JObject(With(obj.o, key, op.value)))
           [] op.op = "remove" -> Applied(JObject(Without(obj.o, key)))
           [] op.op = "test" ->
                IF Has(obj.o, key) /\ obj.o[key] = op.value THEN Applied(obj) ELSE Thrown
           [] OTHER -> Thrown
    ELSE CASE op.op = "remove" -> Applied(obj)
           [] OTHER -> Thrown

RECURSIVE ApplyAt(_, _, _)
\* the loop of applyOperation below obj, for the segments keys still to walk
ApplyAt(obj, keys, op) ==
    LET key == IF keys = <<>> THEN "undefined" ELSE Head(keys)
    IN  IF Len(keys) <= 1 THEN LeafOp(obj, key, op)
        ELSE IF obj = Undefined \/ obj = JNull THEN Thrown
        ELSE IF obj.t = "object" /\ Has(obj.o, key)
        THEN LET r == ApplyAt(obj.o[key], Tail(keys), op)
             IN  IF r.ok THEN Applied(JObject(With(obj.o, key, r.doc))) ELSE Thrown
        ELSE Thrown

\* applyOperation(document, operation, false, true)
applyOperation(doc, op) ==
    IF op.path = <<"">>
    THEN CASE op.op \in {"add", "replace"} -> Applied(op.value)
           [] op.op = "remove" -> Applied(JNull)
           [] op.op = "test" -> IF doc = op.value THEN Applied(doc) ELSE Thrown
           [] OTHER -> Applied(doc)
    ELSE ApplyAt(doc, Tail(op.path), op)

RECURSIVE applyPatchBestEffort(_, _)
\* a variant that skips an operation that fails and applies the others
applyPatchBestEffort(doc, patches) ==
    IF patches = <<>> THEN Applied(doc)
    ELSE LET r == applyOperation(doc, Head(patches))
         IN  IF r.ok THEN applyPatchBestEffort(r.doc, Tail(patches))
             ELSE applyPatchBestEffort(doc, Tail(patches))

RECURSIVE applyPatch(_, _)
applyPatch(doc, patches) ==
    IF patches = <<>> THEN Applied(doc)
    ELSE LET r == applyOperation(doc, Head(patches))
         IN  IF r.ok THEN applyPatch(r.doc, Tail(patches)) ELSE Thrown

\* path.startsWith("/")
StartsWithSlash(path) == Len(path) >= 2 /\ path[1] = ""

(***************************************************************************)
(* mergeMarkdownBlock                                                      *)
(***************************************************************************)
\* a variant that appends at offset 0 instead of replacing
mergeMarkdownBlockAppend(existing, incoming) ==
    IF existing = Undefined THEN incoming
    ELSE LET result == Spread(existing, incoming)
         IN  IF Has(incoming, "chunks") /\ Len(incoming.chunks) > 0
             THEN LET offset == IF Has(incoming, "chunk_starting_offset")
                                THEN incoming.chunk_starting_offset ELSE 0
                      existingChunks == IF Has(existing, "chunks")
                                        THEN existing.chunks ELSE <<>>
                  IN  IF offset = 0
                      THEN With(result, "chunks", existingChunks \o incoming.chunks)
                      ELSE With(result, "chunks",
                                SliceTo(existingChunks, offset) \o incoming.chunks)
             ELSE result

mergeMarkdownBlock(existing, incoming) ==
    IF existing = Undefined THEN incoming
    ELSE LET result == Spread(existing, incoming)
         IN  IF Has(incoming, "chunks") /\ Len(incoming.chunks) > 0
             THEN LET offset == IF Has(incoming, "chunk_starting_offset")
                                THEN incoming.chunk_starting_offset ELSE 0
                      existingChunks == IF Has(existing, "chunks")
                                        THEN existing.chunks ELSE <<>>
                  IN  IF offset = 0
                      THEN With(result, "chunks", incoming.chunks)
                      ELSE With(result, "chunks",
                                SliceTo(existingChunks, offset) \o incoming.chunks)
             ELSE result

(***************************************************************************)
(* The block map of mergeBlocks: a JavaScript Map keeps its keys in        *)
(* insertion order, and set() on a present key keeps the key's place.     *)
(* It is modelled as the sequence of its values, each carrying its key in  *)
(* intended_usage.                                                         *)
(***************************************************************************)
MapHas(m, key) == \E i \in 1..Len(m) : m[i].intended_usage = key

MapIndex(m, key) == CHOOSE i \in 1..Len(m) : m[i].intended_usage = key

\* blockMap.get(key)
MapGet(m, key) == IF MapHas(m, key) THEN m[MapIndex(m, key)] ELSE Undefined

\* a variant that adds an entry whether the key is present or not
MapSetAppend(m, key, b) == Append(m, b)

\* blockMap.set(key, b): every value stored has intended_usage = key, except
\* through the spread of a raw block, whose key is the same one
MapSet(m, key, b) ==
    IF MapHas(m, key) THEN [m EXCEPT ![MapIndex(m, key)] = b] ELSE Append(m, b)

RECURSIVE MapFrom(_, _)
\* new Map(existing.map(b => [b.intended_usage, b])), entries added to m
MapFrom(m, blocks) ==
    IF blocks = <<>> THEN m
    ELSE MapFrom(MapSet(m, Head(blocks).intended_usage, Head(blocks)), Tail(blocks))

\* { ...prev } for a prev that may be undefined
SpreadPrev(prev) == IF prev = Undefined THEN EmptyObj ELSE prev

\* prev?.markdown_block
PrevMarkdown(prev) ==
    IF prev # Undefined /\ Has(prev, "markdown_block") THEN prev.markdown_block
    ELSE Undefined

\* a variant that starts from an empty string whatever the first path
CurrentValueEmptyString(prev, field, patches) ==
    IF prev # Undefined /\ Has(prev, field) /\ prev[field] # JNull THEN prev[field]
    ELSE JString("")

\* (prev?.[field]) ?? (patches?.[0]?.path?.startsWith("/") ? {} : "")
CurrentValue(prev, field, patches) ==
    IF prev # Undefined /\ Has(prev, field) /\ prev[field] # JNull THEN prev[field]
    ELSE IF patches # <<>> /\ StartsWithSlash(patches[1].path) THEN JObject(EmptyObj)
    ELSE JString("")

\* a variant that drops a block whose patch fails
mergeBlockNoFallback(m, block) ==
    LET key  == block.intended_usage
        prev == MapGet(m, key)
    IN  IF Has(block, "markdown_block")
        THEN MapSet(m, key,
                 With(With(SpreadPrev(prev), "intended_usage", key),
                      "markdown_block",
                      mergeMarkdownBlock(PrevMarkdown(prev), block.markdown_block)))
        ELSE IF Has(block, "diff_block")
        THEN LET field   == block.diff_block.field
                 patches == IF Has(block.diff_block, "patches")
                            THEN block.diff_block.patches ELSE <<>>
                 patched == applyPatch(CurrentValue(prev, field, patches), patches)
             IN  IF patched.ok
                 THEN MapSet(m, key,
                          With(With(SpreadPrev(prev), "intended_usage", key),
                               field, patched.doc))
                 ELSE m
        ELSE MapSet(m, key, Spread(SpreadPrev(prev), block))

\* one iteration of the loop of mergeBlocks
mergeBlock(m, block) ==
    LET key  == block.intended_usage
        prev == MapGet(m, key)
    IN  IF Has(block, "markdown_block")
        THEN MapSet(m, key,
                 With(With(SpreadPrev(prev), "intended_usage", key),
                      "markdown_block",
                      mergeMarkdownBlock(PrevMarkdown(prev), block.markdown_block)))
        ELSE IF Has(block, "diff_block")
        THEN LET field   == block.diff_block.field
                 patches == IF Has(block.diff_block, "patches")
                            THEN block.diff_block.patches ELSE <<>>
                 patched == applyPatch(CurrentValue(prev, field, patches), patches)
             IN  IF patched.ok
                 THEN MapSet(m, key,
                          With(With(SpreadPrev(prev), "intended_usage", key),
                               field, patched.doc))
                 ELSE MapSet(m, key, Spread(SpreadPrev(prev), block))
        ELSE MapSet(m, key, Spread(SpreadPrev(prev), block))

RECURSIVE mergeBlocksLoop(_, _)
mergeBlocksLoop(m, incoming) ==
    IF incoming = <<>> THEN m
    ELSE mergeBlocksLoop(mergeBlock(m, Head(incoming)), Tail(incoming))

mergeBlocks(existing, incoming) ==
    mergeBlocksLoop(MapFrom(<<>>, existing), incoming)

(***************************************************************************)
(* mergeEntries                                                            *)
(***************************************************************************)
\* a variant that empties the blocks when the payload carries none
mergeEntriesDropBlocks(existing, incoming) ==
    LET incomingRest == Without(incoming, "blocks")
        merged       == Spread(existing, incomingRest)
        existingBlocks == IF Has(existing, "blocks") THEN existing.blocks ELSE <<>>
    IN  IF Has(incoming, "blocks") /\ Len(incoming.blocks) > 0
        THEN With(merged, "blocks", mergeBlocks(existingBlocks, incoming.blocks))
        ELSE With(merged, "blocks", <<>>)

mergeEntries(existing, incoming) ==
    LET incomingRest == Without(incoming, "blocks")
        merged       == Spread(existing, incomingRest)
        existingBlocks == IF Has(existing, "blocks") THEN existing.blocks ELSE <<>>
    IN  IF Has(incoming, "blocks") /\ Len(incoming.blocks) > 0
        THEN With(merged, "blocks", mergeBlocks(existingBlocks, incoming.blocks))
        ELSE With(merged, "blocks", existingBlocks)

(***************************************************************************)
(* The assignments a merge makes.  Objects are values here, so what the    *)
(* code assigns into is recorded apart: per assignment the object, who     *)
(* made it (this call, or an earlier one that may have handed it out), and *)
(* for a patched document where it sits and what it held.                  *)
(***************************************************************************)
Write(object, owner, key, field, old, value) ==
    [object |-> object, owner |-> owner, key |-> key, field |-> field,
     old |-> old, value |-> value]

\* a variant that lets applyPatch write into the document handed in
MutateDocumentTrue == TRUE

\* the fourth argument of applyPatch(current, patches, false, false)
MutateDocument == FALSE

\* who made the document the operations of applyPatch write into: this call
\* (the clone made when MutateDocument is false, or the literal made for a
\* missing field), or an earlier one (the value prev holds)
DocumentOwner(prev, field) ==
    IF MutateDocument /\ prev # Undefined /\ Has(prev, field) /\ prev[field] # JNull
    THEN "existing"
    ELSE "call"

\* the assignments of one iteration of the loop of mergeBlocks, in order:
\* result.chunks = ... in mergeMarkdownBlock, the operations of applyPatch,
\* blockMap.set
BlockWrites(m, block) ==
    LET key  == block.intended_usage
        prev == MapGet(m, key)
        set  == <<Write("blockMap", "call", key, "", Undefined, Undefined)>>
    IN  IF Has(block, "markdown_block")
        THEN (IF /\ PrevMarkdown(prev) # Undefined
                 /\ Has(block.markdown_block, "chunks")
                 /\ Len(block.markdown_block.chunks) > 0
              THEN <<Write("result", "call", key, "markdown_block", Undefined, Undefined)>>
              ELSE <<>>) \o set
        ELSE IF Has(block, "diff_block")
        THEN LET field   == block.diff_block.field
                 patches == IF Has(block.diff_block, "patches")
                            THEN block.diff_block.patches ELSE <<>>
                 current == CurrentValue(prev, field, patches)
                 patched == applyPatch(current, patches)
             IN  (IF patches # <<>> /\ patched.ok
                  THEN <<Write("document", DocumentOwner(prev, field), key, field,
                               current, patched.doc)>>
                  ELSE <<>>) \o set
        ELSE set

RECURSIVE WritesLoop(_, _)
WritesLoop(m, incoming) ==
    IF incoming = <<>> THEN <<>>
    ELSE BlockWrites(m, Head(incoming))
         \o WritesLoop(mergeBlock(m, Head(incoming)), Tail(incoming))

\* the assignments of mergeEntries(existing, incoming), then those of update
\* (this.entry = ..., this.answer = ...)
UpdateWrites(existing, incoming) ==
    LET existingBlocks == IF Has(existing, "blocks") THEN existing.blocks ELSE <<>>
    IN  (IF Has(incoming, "blocks") /\ Len(incoming.blocks) > 0
         THEN WritesLoop(MapFrom(<<>>, existingBlocks), incoming.blocks)
         ELSE <<>>)
        \o <<Write("merged", "call", <<>>, "blocks", Undefined, Undefined),
              Write("accumulator", "accumulator", <<>>, "entry", Undefined, Undefined),
              Write("accumulator", "accumulator", <<>>, "answer", Undefined, Undefined)>>

\* an update handed out earlier, as it reads after the assignment w: it
\* changes if w went into an object made before the call that the update
\* holds (the same field of the same block, holding the same value)
Aliased(u, w) ==
    LET blocks == u.entry.blocks
    IN  IF /\ w.owner = "existing"
           /\ MapHas(blocks, w.key)
           /\ Has(MapGet(blocks, w.key), w.field)
           /\ MapGet(blocks, w.key)[w.field] = w.old
        THEN [u EXCEPT !.entry.blocks[MapIndex(blocks, w.key)][w.field] = w.value]
        ELSE u

RECURSIVE AliasedBy(_, _)
AliasedBy(u, made) ==
    IF made = <<>> THEN u ELSE AliasedBy(Aliased(u, Head(made)), Tail(made))

(***************************************************************************)
(* extractAnswer                                                           *)
(***************************************************************************)
\* whether a markdown payload yields a text: a truthy answer, or some chunks
YieldsText(block) ==
    \/ Has(block, "answer") /\ block.answer # <<>>
    \/ Has(block, "chunks") /\ Len(block.chunks) > 0

\* a variant that takes the chunks joined first, and the answer without them
MarkdownTextChunksFirst(block) ==
    IF Has(block, "chunks") /\ Len(block.chunks) > 0 THEN Join(block.chunks)
    ELSE block.answer

\* the text it yields: the answer if truthy, else the chunks joined
MarkdownText(block) ==
    IF Has(block, "answer") /\ block.answer # <<>> THEN block.answer
    ELSE Join(block.chunks)

\* a variant that finds the last block instead of the first
FindLastIndex(hits) ==
    IF hits = {} THEN 0 ELSE CHOOSE i \in hits : \A j \in hits : i >= j

\* blocks.find(pred): the index of the first block, in order, among hits, the
\* indices of the blocks that satisfy pred (0: there is none)
FindIndex(hits) ==
    IF hits = {} THEN 0 ELSE CHOOSE i \in hits : \A j \in hits : i <= j

IsMarkdownBlock(b) ==
    Includes(b.intended_usage, "markdown") /\ Has(b, "markdown_block")

IsTextBlock(b) ==
    b.intended_usage = <<"ask_text">> /\ Has(b, "markdown_block")

extractAnswer(e) ==
    IF ~Has(e, "blocks") \/ Len(e.blocks) = 0 THEN <<>>
    ELSE LET m == FindIndex({i \in 1..Len(e.blocks) : IsMarkdownBlock(e.blocks[i])})
             t == FindIndex({i \in 1..Len(e.blocks) : IsTextBlock(e.blocks[i])})
         IN  IF m # 0 /\ YieldsText(e.blocks[m].markdown_block)
             THEN MarkdownText(e.blocks[m].markdown_block)
             ELSE IF t # 0 /\ YieldsText(e.blocks[t].markdown_block)
             THEN MarkdownText(e.blocks[t].markdown_block)
             ELSE <<>>

(***************************************************************************)
(* extractWebResults, extractSources                                       *)
(***************************************************************************)
IsWebBlock(b) == b.intended_usage = <<"web_results">>

extractWebResults(e) ==
    IF ~Has(e, "blocks") \/ Len(e.blocks) = 0 THEN <<>>
    ELSE LET w == FindIndex({i \in 1..Len(e.blocks) : IsWebBlock(e.blocks[i])})
         IN  IF w # 0 /\ Has(e.blocks[w], "web_result_block")
                /\ Has(e.blocks[w].web_result_block, "web_results")
             THEN e.blocks[w].web_result_block.web_results
             ELSE <<>>

\* result.url && result.name: both present and not the empty string
IsLinked(r) == Has(r, "url") /\ r.url # "" /\ Has(r, "name") /\ r.name # ""

RECURSIVE SourceLinks(_)
SourceLinks(results) ==
    IF results = <<>> THEN <<>>
    ELSE LET r == Head(results)
         IN  (IF IsLinked(r) THEN <<[title |-> r.name, url |-> r.url]>> ELSE <<>>)
             \o SourceLinks(Tail(results))

extractSources(e) == SourceLinks(extractWebResults(e))

(***************************************************************************)
(* StreamAccumulator.update: the StreamUpdate it returns for the running   *)
(* entry e, the stored answer a and the payload incoming.  The entry and   *)
(* the answer it stores are the entry and answer of that update.           *)
(***************************************************************************)
\* a variant that slices without the startsWith test
DeltaSliceOnly(stored, new) == SliceFrom(new, Len(stored))

\* a variant that gives the whole new answer every time
DeltaWhole(stored, new) == new

\* answer.startsWith(this.answer) ? answer.slice(this.answer.length) : answer
Delta(stored, new) ==
    IF StartsWith(new, stored) THEN SliceFrom(new, Len(stored)) ELSE new

\* Boolean(incoming.final) || incoming.status === "COMPLETED"
IsFinal(incoming) ==
    \/ Has(incoming, "final") /\ incoming.final
    \/ Has(incoming, "status") /\ incoming.status = "COMPLETED"

\* a variant that reads the finality off the merged entry
updateFinalOfMerged(e, a, incoming) ==
    LET merged == mergeEntries(e, incoming)
        new    == extractAnswer(merged)
    IN  [entry   |-> merged,
         answer  |-> new,
         delta   |-> Delta(a, new),
         sources |-> extractSources(merged),
         isFinal |-> IsFinal(merged)]

update(e, a, incoming) ==
    LET merged == mergeEntries(e, incoming)
        new    == extractAnswer(merged)
    IN  [entry   |-> merged,
         answer  |-> new,
         delta   |-> Delta(a, new),
         sources |-> extractSources(merged),
         isFinal |-> IsFinal(incoming)]

\* new StreamAccumulator(): entry = { blocks: [] }, answer = ""
NewEntry == [blocks |-> <<>>]

(***************************************************************************)
(* Payloads.                                                               *)
(***************************************************************************)
\* the objects that carry the key k with a value of S, or do not carry it
Opt(k, S) == {EmptyObj} \cup {[j \in {k} |-> v] : v \in S}

MdKey  == <<"ask_text_0_", "markdown">>
AskKey == <<"ask_text">>
WebKey == <<"web_results">>

ChunkVocab == {<<"a">>, <<"b">>}
ChunkSeqs  == UNION {[1..n -> ChunkVocab] : n \in 0..MaxChunks}
Offsets    == 0..MaxOffset

\* markdown payloads that splice chunks
SpliceMarkdowns ==
    {Spread(c, o) : c \in Opt("chunks", ChunkSeqs),
                    o \in Opt("chunk_starting_offset", Offsets)}

\* markdown payloads that carry a complete answer
AnswerMarkdowns ==
    {Spread(c, [answer |-> x]) : c \in Opt("chunks", {<< <<"b">> >>}),
                                 x \in {<<>>, <<"a", "b">>}}

MdBlock(key, md) == [intended_usage |-> key, markdown_block |-> md]

DiffKey == <<"diff_target">>

DiffBlock(field, patches) ==
    [intended_usage |-> DiffKey, diff_block |-> [field |-> field, patches |-> patches]]

\* payloads that patch the field content of the block DiffKey
DiffPayloads ==
    {[blocks |-> <<DiffBlock("content", ps)>>] :
        ps \in {<<[op |-> "add", path |-> <<"", "k">>, value |-> JString("v")]>>,
                <<[op |-> "replace", path |-> <<"">>, value |-> JString("w")]>>,
                <<[op |-> "add", path |-> <<"", "j">>, value |-> JString("v")],
                  [op |-> "test", path |-> <<"", "k">>, value |-> JString("v")]>>,
                <<[op |-> "add", path |-> <<"", "i">>, value |-> JString("v")]>>,
                <<[op |-> "remove", path |-> <<"">>]>>}}

\* payloads that carry scalar fields only
ScalarPayloads ==
    {Spread(s, f) : s \in Opt("status", {"PENDING", "COMPLETED", "completed"}),
                    f \in Opt("final", BOOLEAN)}

\* the payloads fed to a bare accumulator
AccPayloads ==
    {[blocks |-> <<MdBlock(MdKey, md)>>] : md \in SpliceMarkdowns}
    \cup {[blocks |-> <<MdBlock(k, md)>>] : k \in {MdKey, AskKey}, md \in AnswerMarkdowns}
    \cup ScalarPayloads
    \cup DiffPayloads

Md2Key == <<"markdown", "_1">>

\* a block that carries fields of no special kind
OtherBlock(key, fields) == With(fields, "intended_usage", key)

\* structural-patch blocks for the field content of the block MdKey: one whose
\* replace names a path below a member that no value has, one whose test fails
\* unless the current value is an object with k = "v", one that makes that
\* object whatever the current value
PatchBlocks ==
    {[intended_usage |-> MdKey, diff_block |-> [field |-> "content", patches |-> ps]] :
        ps \in {<<[op |-> "replace", path |-> <<"", "x", "y">>, value |-> JString("w")]>>,
                <<[op |-> "test", path |-> <<"", "k">>, value |-> JString("v")]>>,
                <<[op |-> "replace", path |-> <<"">>, value |-> JObject(EmptyObj)],
                  [op |-> "add", path |-> <<"", "k">>, value |-> JString("v")]>>}}

\* the blocks of the payloads below: markdown blocks under three keys,
\* ordinary blocks and structural-patch blocks under the key MdKey
MergeBlocks ==
    {MdBlock(MdKey, [chunks |-> << <<"a">> >>]),
     MdBlock(MdKey, [chunks |-> << <<"b">> >>, chunk_starting_offset |-> 1]),
     MdBlock(MdKey, EmptyObj),
     MdBlock(Md2Key, [answer |-> <<"a", "b">>, chunks |-> << <<"b">> >>]),
     MdBlock(AskKey, [chunks |-> << <<"b">> >>]),
     OtherBlock(MdKey, [content |-> JString("one")]),
     OtherBlock(MdKey, [content |-> JString("two"), markdown |-> "m"])}
    \cup PatchBlocks

\* payloads of one block or of two, the two with the same key or not, and
\* payloads with fields other than blocks: without blocks, with an empty list
\* of blocks, with a block
MergePayloads ==
    {[blocks |-> <<b>>] : b \in MergeBlocks}
    \cup {[blocks |-> <<b, c>>] : b \in MergeBlocks, c \in MergeBlocks}
    \cup {[status |-> "PENDING", text |-> "t"],
          [status |-> "COMPLETED", blocks |-> <<>>],
          [status |-> "PENDING", text |-> "t",
           blocks |-> <<MdBlock(MdKey, [chunks |-> << <<"a">> >>])>>]}

(***************************************************************************)
(* The wire: the data of one SSE event, as eventsource-parser hands it to  *)
(* onEvent.  It is a text with or without surrounding white space (pad);   *)
(* the text is a literal that is no JSON text (lit) or the JSON text of a  *)
(* value (json).  The value is null, a number, or an object.               *)
(***************************************************************************)
Lit(pad, text) == [pad |-> pad, text |-> [lit |-> text]]
Json(pad, value) == [pad |-> pad, text |-> [json |-> value]]

\* payloads that grow the answer
GrowFirst == [blocks |-> <<MdBlock(MdKey, [chunks |-> << <<"a">> >>])>>]
GrowNext ==
    [blocks |-> <<MdBlock(MdKey, [chunks |-> << <<"b">> >>, chunk_starting_offset |-> 1])>>]

\* payloads that end the answer
FinalPayloads ==
    {[final |-> TRUE, status |-> "COMPLETED"],
     [status |-> "COMPLETED", blocks |-> <<MdBlock(MdKey, [answer |-> <<"a", "b">>])>>]}

\* payloads by which the server reports a failure, or seems to
FailurePayloads ==
    {[status |-> "failed", text |-> "quota exceeded", error_code |-> "E1"],
     [status |-> "FAILED"],
     [status |-> "PENDING", error_code |-> "E2"],
     [status |-> "PENDING", error_code |-> "", text |-> "no code"],
     [status |-> "BLOCKED", text |-> "blocked"]}

\* the event data the server may send
RawPayloads ==
    {Lit(TRUE, ""), Lit(FALSE, "[DONE]"), Lit(FALSE, "{bad"),
     Json(FALSE, JNull), Json(FALSE, JNumber(1)),
     Json(FALSE, JObject(GrowFirst)), Json(TRUE, JObject(GrowNext))}
    \cup {Json(FALSE, JObject(o)) : o \in FinalPayloads \cup FailurePayloads}

\* the HTTP responses fetch may resolve with
HttpResponses == [status : {200, 299, 300, 500}, hasBody : BOOLEAN]

\* a variant that takes every status below 400 as ok
OkBelow400(r) == r.status >= 200 /\ r.status < 400

\* response.ok
Ok(r) == r.status >= 200 /\ r.status <= 299

(***************************************************************************)
(* State.                                                                  *)
(***************************************************************************)
VARIABLES
    entry,      \* StreamAccumulator.entry
    answer,     \* StreamAccumulator.answer
    calls,      \* number of update calls made so far
    last,       \* the last update call: its arguments, the state before it
                \* and the StreamUpdate it returned
    fed,        \* a history kept for the replay: every update call made on
                \* the accumulator, in order, with the StreamUpdate returned
                \* (as it reads now) and the assignments the call made
    method,     \* the client method called: stream or reconnect
    pc,         \* where the call is: idle, read (awaiting reader.read()),
                \* drain (in the loop over queue), done, failed, returned
    requests,   \* number of fetch calls issued
    locked,     \* whether the reader holds its lock on response.body
    queue,      \* parseEventStream's queue, each item with its arrival index
    arrived,    \* every event data received so far, in arrival order
    log,        \* one record per item taken off queue: its index and outcome
    emitted,    \* the StreamUpdates yielded to the consumer, in order
    error,      \* the error the call threw
    response,   \* the PerplexityResponse the call returned
    signal,     \* options.signal: whether the caller has aborted it, and how
                \* many events had arrived when it did
    ws,         \* PerplexitySocket: readyState of #ws (connecting, open,
                \* closing, closed)
    phase,      \* the closure variable phase of the constructor
    ready,      \* the promise #ready: pending, resolved, or rejected with
                \* the message of its error
    timeout,    \* whether the connect timer is armed
    nextAckId,  \* #nextAckId
    pendingAcks,\* the ids in the table #pendingAcks
    timers,     \* the ids whose RPC timer is armed
    promises,   \* the promise emitWithAck returned for each id it assigned
    received,   \* number of inbound frames handled so far
    lastIn,     \* the last socket event handled
    lastOut,    \* the frames sent while handling it
    joins,      \* number of namespace-join frames sent so far
    closes,     \* number of close() calls made so far
    refresh     \* refreshToken: where the call is (ready: awaiting
                \* socket.ready(), call: awaiting emitWithAck, returned) and
                \* the token it returned

accVars == <<entry, answer, calls, last, fed>>

streamVars == <<method, pc, requests, locked, queue, arrived, log, emitted,
                error, response, signal>>

sockVars == <<ws, phase, ready, timeout, nextAckId, pendingAcks, timers,
              promises, received, lastIn, lastOut, joins, closes, refresh>>

vars == <<entry, answer, calls, last, fed, method, pc, requests, locked, queue,
          arrived, log, emitted, error, response, signal, ws, phase, ready,
          timeout,
          nextAckId, pendingAcks, timers, promises, received, lastIn, lastOut,
          joins, closes, refresh>>

NoCall == [none |-> TRUE]
NoError == [none |-> TRUE]
NoResponse == [none |-> TRUE]
NoRefresh == [pc |-> "none"]
NotAborted == [aborted |-> FALSE]

\* a variant of update that does not store the answer
DoUpdateKeepAnswer(incoming) ==
    LET u == update(entry, answer, incoming)
    IN  /\ entry' = u.entry
        /\ answer' = answer
        /\ calls' = calls + 1
        /\ last' = [incoming   |-> incoming,
                    prevEntry  |-> entry,
                    prevAnswer |-> answer,
                    update     |-> u]

\* the effect of accumulator.update(incoming) on the accumulator
DoUpdate(incoming) ==
    LET u == update(entry, answer, incoming)
    IN  /\ entry' = u.entry
        /\ answer' = u.answer
        /\ calls' = calls + 1
        /\ last' = [incoming   |-> incoming,
                    prevEntry  |-> entry,
                    prevAnswer |-> answer,
                    update     |-> u]

\* no event handled yet
NoEvent == [none |-> TRUE]

\* no socket was made
NoSocket ==
    /\ ws = "none"
    /\ phase = 0
    /\ ready = [state |-> "none"]
    /\ timeout = FALSE
    /\ nextAckId = 0
    /\ pendingAcks = {}
    /\ timers = {}
    /\ promises = <<>>
    /\ received = 0
    /\ lastIn = NoEvent
    /\ lastOut = <<>>
    /\ joins = 0
    /\ closes = 0
    /\ refresh = NoRefresh

\* no client call is under way
NoStream ==
    /\ pc = "idle"
    /\ requests = 0
    /\ locked = FALSE
    /\ queue = <<>>
    /\ arrived = <<>>
    /\ log = <<>>
    /\ emitted = <<>>
    /\ error = NoError
    /\ response = NoResponse
    /\ signal = NotAborted

(***************************************************************************)
(* A bare accumulator, fed any sequence of payloads.                       *)
(***************************************************************************)
AccInit ==
    /\ entry = NewEntry
    /\ answer = <<>>
    /\ calls = 0
    /\ last = NoCall
    /\ fed = <<>>
    /\ method = "none"
    /\ NoStream
    /\ NoSocket

AccUpdate(incoming) ==
    /\ calls < MaxUpdates
    /\ DoUpdate(incoming)
    /\ UNCHANGED <<fed, streamVars, sockVars>>

AccNext == \E incoming \in AccPayloads : AccUpdate(incoming)

AccSpec == AccInit /\ [][AccNext]_vars

(***************************************************************************)
(* The same accumulator, fed payloads of several blocks.                   *)
(***************************************************************************)
MergeNext == \E incoming \in MergePayloads : AccUpdate(incoming)

MergeSpec == AccInit /\ [][MergeNext]_vars

(***************************************************************************)
(* The same accumulator, with the history of its update calls kept.        *)
(***************************************************************************)
\* payloads of one block of each kind, of two blocks, growing and final ones
ReplayPayloads ==
    {[blocks |-> <<b>>] : b \in MergeBlocks}
    \cup {GrowNext,
          [status |-> "PENDING", text |-> "t"],
          [blocks |-> <<MdBlock(MdKey, [chunks |-> << <<"a">> >>]),
                        MdBlock(MdKey, [chunks |-> << <<"b">> >>,
                                        chunk_starting_offset |-> 1])>>]}
    \cup FinalPayloads

ReplayUpdate(incoming) ==
    /\ calls < MaxUpdates
    /\ DoUpdate(incoming)
    /\ LET made == UpdateWrites(entry, incoming)
       IN  fed' = Append([i \in 1..Len(fed) |->
                             [fed[i] EXCEPT !.update = AliasedBy(@, made)]],
                         [incoming |-> incoming,
                          update |-> update(entry, answer, incoming),
                          writes |-> made])
    /\ UNCHANGED <<streamVars, sockVars>>

ReplayNext == \E incoming \in ReplayPayloads : ReplayUpdate(incoming)

ReplaySpec == AccInit /\ [][ReplayNext]_vars

(***************************************************************************)
(* parseEventStream: what it does with one item of its queue.              *)
(***************************************************************************)
\* a variant that takes the last item: queue.pop()
Pop(q) == [item |-> q[Len(q)], rest |-> SubSeq(q, 1, Len(q) - 1)]

\* queue.shift(): the item taken and the queue left
Shift(q) == [item |-> Head(q), rest |-> Tail(q)]

\* String.prototype.trim
Trim(data) == data.text

\* whether JSON.parse(text) throws a SyntaxError
IsSyntaxError(text) == ~Has(text, "json")

\* the properties read off a parsed value that is not null
Props(parsed) == IF parsed.t = "object" THEN parsed.o ELSE EmptyObj

\* a variant that knows the lower-case status only
IsFailedStatusLower(parsed) ==
    Has(Props(parsed), "status") /\ Props(parsed).status = "failed"

\* parsed.status === "failed" || parsed.status === "FAILED"
IsFailedStatus(parsed) ==
    Has(Props(parsed), "status") /\ Props(parsed).status \in {"failed", "FAILED"}

\* the truthiness of parsed.error_code
HasErrorCode(parsed) ==
    Has(Props(parsed), "error_code") /\ Props(parsed).error_code # ""

\* a variant that rethrows the SyntaxError of JSON.parse
OutcomeRethrow(text) ==
    IF text = [lit |-> ""] \/ text = [lit |-> "[DONE]"] THEN "skip"
    ELSE IF IsSyntaxError(text) THEN "syntax_error"
    ELSE IF text.json = JNull THEN "type_error"
    ELSE IF IsFailedStatus(text.json) \/ HasErrorCode(text.json) THEN "stream_error"
    ELSE "yield"

\* what the loop body does with the trimmed text of one item:
\* skip it, throw a TypeError, throw a PerplexityStreamError, or yield it
Outcome(text) ==
    IF text = [lit |-> ""] \/ text = [lit |-> "[DONE]"] THEN "skip"
    ELSE IF IsSyntaxError(text) THEN "skip"
    ELSE IF text.json = JNull THEN "type_error"
    ELSE IF IsFailedStatus(text.json) \/ HasErrorCode(text.json) THEN "stream_error"
    ELSE "yield"

\* new PerplexityStreamError(message, code) for a failure payload
StreamError(parsed) ==
    LET o == Props(parsed)
        message == IF Has(o, "text") THEN o.text
                   ELSE IF IsFailedStatus(parsed) THEN "Perplexity stream failed"
                   ELSE o.error_code
        e == [name |-> "PerplexityStreamError", message |-> message]
    IN  IF Has(o, "error_code") THEN With(e, "code", o.error_code) ELSE e

\* the TypeError of reading a property of null
TypeError == [name |-> "TypeError", message |-> "null has no properties"]

(***************************************************************************)
(* PerplexityClient.stream and reconnect, which have the same body but for *)
(* the request they issue; ask, which runs stream to its end.              *)
(***************************************************************************)
\* buildResponse(accumulator)
buildResponse(e, a) ==
    [entry |-> e, answer |-> a, sources |-> extractSources(e),
     webResults |-> extractWebResults(e)]

\* a variant of the request that leaves options.signal out
SignalDropped == FALSE

\* whether the request carries options.signal
PassesSignal == TRUE

\* whether fetch has been told to give up: the signal it was passed is aborted
Cancelled == PassesSignal /\ signal.aborted

Init ==
    /\ entry = NewEntry
    /\ answer = <<>>
    /\ calls = 0
    /\ last = NoCall
    /\ fed = <<>>
    /\ method \in {"stream", "reconnect"}
    /\ NoStream
    /\ NoSocket

\* fetch resolves; a response that is not ok, or has no body, is thrown;
\* otherwise the accumulator is made and parseEventStream acquires the reader
Fetch(r) ==
    /\ pc = "idle"
    /\ ~Cancelled
    /\ requests' = requests + 1
    /\ IF ~Ok(r)
       THEN /\ pc' = "failed"
            /\ error' = [name |-> "PerplexityApiError", status |-> r.status]
            /\ locked' = FALSE
       ELSE IF ~r.hasBody
       THEN /\ pc' = "failed"
            /\ error' = [name |-> "PerplexityError",
                         message |-> "Perplexity response contained no body"]
            /\ locked' = FALSE
       ELSE /\ pc' = "read"
            /\ error' = error
            /\ locked' = TRUE
    /\ entry' = NewEntry
    /\ answer' = <<>>
    /\ UNCHANGED <<sockVars, calls, last, fed, method, signal, queue, arrived, log, emitted, response>>

\* the events completed by a chunk, numbered by arrival
Numbered(events) ==
    [i \in 1..Len(events) |-> [at |-> Len(arrived) + i, data |-> events[i]]]

\* reader.read() resolves with a chunk; parser.feed pushes the data of the
\* events it completes (none, one or several)
Read(events) ==
    /\ pc = "read"
    /\ ~Cancelled
    /\ Len(arrived) + Len(events) <= MaxPayloads
    /\ arrived' = arrived \o events
    /\ queue' = queue \o Numbered(events)
    /\ pc' = IF queue' = <<>> THEN "read" ELSE "drain"
    /\ UNCHANGED <<sockVars, accVars, method, signal, requests, locked, log, emitted, error, response>>

\* reader.read() resolves with done: the loop breaks, the lock is released
\* and the client returns the response built from the accumulator
ReadDone ==
    /\ pc = "read"
    /\ ~Cancelled
    /\ pc' = "done"
    /\ locked' = FALSE
    /\ response' = buildResponse(entry, answer)
    /\ UNCHANGED <<sockVars, accVars, method, signal, requests, queue, arrived, log, emitted, error>>

\* a variant without the finally: the lock stays held
ReadFailHeld ==
    /\ pc = "read"
    /\ pc' = "failed"
    /\ locked' = locked
    /\ error' = [name |-> "ReadError"]
    /\ UNCHANGED <<sockVars, accVars, method, signal, requests, queue, arrived, log, emitted, response>>

\* reader.read() rejects: the lock is released and the error propagates
ReadFail ==
    /\ pc = "read"
    /\ pc' = "failed"
    /\ locked' = FALSE
    /\ error' = [name |-> "ReadError"]
    /\ UNCHANGED <<sockVars, accVars, method, signal, requests, queue, arrived, log, emitted, response>>

\* the record of one item taken off the queue
Logged(item, outcome) == Append(log, [at |-> item.at, outcome |-> outcome])

\* position after an item was handled without leaving the loop
Continue(rest) == IF rest = <<>> THEN "read" ELSE "drain"

\* an item that is empty, [DONE] or no JSON text: continue
Skip ==
    /\ pc = "drain"
    /\ LET s == Shift(queue)
       IN  /\ Outcome(Trim(s.item.data)) = "skip"
           /\ queue' = s.rest
           /\ log' = Logged(s.item, "skip")
           /\ pc' = Continue(s.rest)
    /\ UNCHANGED <<sockVars, accVars, method, signal, requests, locked, arrived, emitted, error, response>>

\* an item whose handling throws: the lock is released in finally and the
\* error propagates out of parseEventStream and out of the client call
Throw ==
    /\ pc = "drain"
    /\ LET s == Shift(queue)
           o == Outcome(Trim(s.item.data))
       IN  /\ o \notin {"skip", "yield"}
           /\ queue' = s.rest
           /\ log' = Logged(s.item, o)
           /\ error' = IF o = "stream_error" THEN StreamError(Trim(s.item.data).json)
                       ELSE IF o = "type_error" THEN TypeError
                       ELSE [name |-> "SyntaxError"]
    /\ pc' = "failed"
    /\ locked' = FALSE
    /\ UNCHANGED <<sockVars, accVars, method, signal, requests, arrived, emitted, response>>

\* a variant that goes on after a final update
EmitOn ==
    /\ pc = "drain"
    /\ LET s == Shift(queue)
           parsed == Trim(s.item.data).json
           u == update(entry, answer, Props(parsed))
       IN  /\ Outcome(Trim(s.item.data)) = "yield"
           /\ queue' = s.rest
           /\ log' = Logged(s.item, "yield")
           /\ DoUpdate(Props(parsed))
           /\ emitted' = Append(emitted, u)
           /\ IF FALSE
              THEN /\ pc' = "done"
                   /\ locked' = FALSE
                   /\ response' = buildResponse(u.entry, u.answer)
              ELSE /\ pc' = Continue(s.rest)
                   /\ UNCHANGED <<locked, response>>
    /\ UNCHANGED <<sockVars, fed, method, signal, requests, arrived, error>>

\* an item that is yielded: the client merges it, yields the update and,
\* when the update is final, returns the response (which ends
\* parseEventStream and releases the lock)
Emit ==
    /\ pc = "drain"
    /\ LET s == Shift(queue)
           parsed == Trim(s.item.data).json
           u == update(entry, answer, Props(parsed))
       IN  /\ Outcome(Trim(s.item.data)) = "yield"
           /\ queue' = s.rest
           /\ log' = Logged(s.item, "yield")
           /\ DoUpdate(Props(parsed))
           /\ emitted' = Append(emitted, u)
           /\ IF u.isFinal
              THEN /\ pc' = "done"
                   /\ locked' = FALSE
                   /\ response' = buildResponse(u.entry, u.answer)
              ELSE /\ pc' = Continue(s.rest)
                   /\ UNCHANGED <<locked, response>>
    /\ UNCHANGED <<sockVars, fed, method, signal, requests, arrived, error>>

\* the consumer of the client's generator returns early, at an update it was
\* yielded that is not final: the generator completes without a response,
\* which ends parseEventStream at its yield and releases the lock in finally
Return ==
    /\ pc \in {"read", "drain"}
    /\ emitted # <<>>
    /\ pc' = "returned"
    /\ locked' = FALSE
    /\ UNCHANGED <<sockVars, accVars, method, signal, requests, queue, arrived, log, emitted, error, response>>

(***************************************************************************)
(* The caller aborts options.signal.  The client never reads the signal    *)
(* itself: it hands it to fetch, which rejects a request under way and     *)
(* errors the body of a response under way, so that reader.read() rejects. *)
(***************************************************************************)
\* whether the client's generator is suspended at a yield or an await, which
\* is when the caller's code can run
Suspended ==
    \/ pc \in {"idle", "read"}
    \/ pc = "drain" /\ log # <<>> /\ log[Len(log)].outcome = "yield"

\* the AbortError fetch and reader.read() reject with
AbortError == [name |-> "AbortError"]

\* controller.abort() by the caller, while the call has not ended
Abort ==
    /\ Suspended
    /\ ~signal.aborted
    /\ signal' = [aborted |-> TRUE, at |-> Len(arrived)]
    /\ UNCHANGED <<sockVars, accVars, method, pc, requests, locked, queue,
                   arrived, log, emitted, error, response>>

\* fetch rejects with the AbortError, which the call throws
FetchAbort ==
    /\ pc = "idle"
    /\ Cancelled
    /\ requests' = requests + 1
    /\ pc' = "failed"
    /\ error' = AbortError
    /\ UNCHANGED <<sockVars, accVars, method, signal, locked, queue, arrived,
                   log, emitted, response>>

\* reader.read() rejects with the AbortError: the lock is released in
\* finally and the error propagates
ReadAbort ==
    /\ pc = "read"
    /\ Cancelled
    /\ pc' = "failed"
    /\ locked' = FALSE
    /\ error' = AbortError
    /\ UNCHANGED <<sockVars, accVars, method, signal, requests, queue, arrived,
                   log, emitted, response>>

\* the event data sent in the runs with an abort
AbortPayloads ==
    {Lit(FALSE, "[DONE]"),
     Json(FALSE, JObject(GrowFirst)), Json(TRUE, JObject(GrowNext)),
     Json(FALSE, JObject([final |-> TRUE, status |-> "COMPLETED"])),
     Json(FALSE, JObject([status |-> "FAILED"]))}

AbortNext ==
    \/ \E r \in HttpResponses : Fetch(r)
    \/ \E n \in 0..MaxEvents : \E events \in [1..n -> AbortPayloads] : Read(events)
    \/ ReadDone
    \/ ReadFail
    \/ Skip
    \/ Throw
    \/ Emit
    \/ Return
    \/ Abort
    \/ FetchAbort
    \/ ReadAbort

AbortSpec == Init /\ [][AbortNext]_vars

Next ==
    \/ \E r \in HttpResponses : Fetch(r)
    \/ \E n \in 0..MaxEvents : \E events \in [1..n -> RawPayloads] : Read(events)
    \/ ReadDone
    \/ ReadFail
    \/ Skip
    \/ Throw
    \/ Emit
    \/ Return

Spec == Init /\ [][Next]_vars

\* what ask does once stream has ended: it returns the value stream returned,
\* or throws when that value is falsy; an error of stream propagates
ask ==
    IF pc = "failed" THEN [thrown |-> error]
    ELSE IF response = NoResponse
    THEN [thrown |-> [name |-> "PerplexityError",
                      message |-> "Stream finished without a response"]]
    ELSE [returned |-> response]

(***************************************************************************)
(* PerplexitySocket (packages/cli/src/auth.ts).  A frame is the text of    *)
(* one WebSocket message, split into the prefix the handlers test (head)   *)
(* and what follows it.  The message of an Error is the sequence of the    *)
(* parts of its template.                                                  *)
(***************************************************************************)
JArray(a) == [t |-> "array", a |-> a]

\* inbound frames: heartbeat, a text that only starts with "2", the open
\* frame, the join-ack, a connect error, an event
Ping == [head |-> "2", rest |-> ""]
Probe == [head |-> "2", rest |-> "probe"]
OpenFrame == [head |-> "0{", rest |-> "sid"]
JoinAck == [head |-> "40", rest |-> ""]
ConnectError == [head |-> "44", rest |-> "denied"]
EventFrame == [head |-> "42", rest |-> "event"]

\* the ack frame "43" + id + payload, as the peer writes it
AckFrame(id, payload) == [head |-> "43", id |-> id, payload |-> payload]

\* the texts a peer may put behind the id of an ack: a JSON array, a bare
\* object, an array of an error object, a bare error object with a message,
\* an error object whose error is null, no JSON text, nothing, a bare number,
\* an empty array
AckPayloads ==
    {[json |-> JArray(<<JObject([jwt |-> JString("new")])>>)],
     [json |-> JObject([jwt |-> JString("new")])],
     [json |-> JArray(<<JObject([error |-> JString("denied")])>>)],
     [json |-> JObject([error |-> JString("denied"),
                        error_message |-> JString("no session")])],
     [json |-> JArray(<<JObject([error |-> JNull])>>)],
     [lit |-> "{bad"],
     [lit |-> ""],
     [json |-> JNumber(1)],
     [json |-> JArray(<<>>)]}

\* the frames a peer may send
InFrames ==
    {Ping, Probe, OpenFrame, JoinAck, ConnectError, EventFrame}
    \cup {AckFrame(id, p) : id \in 0..(MaxCalls - 1), p \in AckPayloads}
    \cup {AckFrame(MaxCalls, [json |-> JArray(<<>>)])}

\* outbound frames
Pong == [head |-> "3", rest |-> ""]
JoinFrame == [head |-> "40", rest |-> "auth"]
CallFrame(id) == [head |-> "42", id |-> id, rest |-> "refreshJWT"]

\* a variant that tests the prefix only
IsPingPrefix(f) == f.head = "2"

\* data === "2"
IsPing(f) == f.head = "2" /\ f.rest = ""

\* data.match(/^43(\d+)([\s\S]*)/): the digits run on into a payload that
\* is a number, which leaves an empty text
AckId(f) ==
    IF Has(f.payload, "json") /\ f.payload.json.t = "number"
    THEN 10 * f.id + f.payload.json.n
    ELSE f.id

AckText(f) ==
    IF Has(f.payload, "json") /\ f.payload.json.t = "number"
    THEN [lit |-> ""]
    ELSE f.payload

\* Array.isArray(payload) ? payload[0] : payload, for a decoded payload
AckResult(payload) ==
    IF payload = Undefined THEN Undefined
    ELSE IF payload.t = "array"
    THEN (IF payload.a = <<>> THEN Undefined ELSE payload.a[1])
    ELSE payload

\* result && typeof result === "object" && "error" in result
IsErrorResult(result) ==
    /\ result # Undefined
    /\ result.t = "object"
    /\ Has(result.o, "error")

\* v ?? ...: whether the property k of o is null or undefined
Nullish(o, k) == ~Has(o, k) \/ o[k] = JNull

\* a variant that reads the error field before the others
ErrorMessageErrorFirst(result) ==
    IF ~Nullish(result.o, "error") THEN <<result.o.error.s>>
    ELSE IF ~Nullish(result.o, "error_message") THEN <<result.o.error_message.s>>
    ELSE IF ~Nullish(result.o, "error_code") THEN <<result.o.error_code.s>>
    ELSE <<"RPC error">>

\* response.error_message ?? response.error_code ?? response.error ?? "RPC error",
\* as the message of the Error made of it (the fields are texts or null)
ErrorMessage(result) ==
    IF ~Nullish(result.o, "error_message") THEN <<result.o.error_message.s>>
    ELSE IF ~Nullish(result.o, "error_code") THEN <<result.o.error_code.s>>
    ELSE IF ~Nullish(result.o, "error") THEN <<result.o.error.s>>
    ELSE <<"RPC error">>

Pending == [state |-> "pending"]
Resolved(value) == [state |-> "resolved", value |-> value]
Rejected(message) == [state |-> "rejected", message |-> message]

\* a variant in which the last call decides
SettleLast(promise, outcome) == outcome

\* resolve or reject called on a promise: the first call decides
Settle(promise, outcome) == IF promise = Pending THEN outcome ELSE promise

\* the promise of the call with the id
PromiseOf(id) == promises[id + 1]

\* promises with every call whose id is in ids settled by outcome
SettleAll(ids, outcome) ==
    [i \in 1..Len(promises) |->
        IF (i - 1) \in ids THEN Settle(promises[i], outcome) ELSE promises[i]]

\* new PerplexitySocket(auth): the WebSocket is connecting, the connect timer
\* is armed, no handler has run
SocketInit ==
    /\ entry = NewEntry
    /\ answer = <<>>
    /\ calls = 0
    /\ last = NoCall
    /\ fed = <<>>
    /\ method = "none"
    /\ NoStream
    /\ ws = "connecting"
    /\ phase = 0
    /\ ready = Pending
    /\ timeout = TRUE
    /\ nextAckId = 0
    /\ pendingAcks = {}
    /\ timers = {}
    /\ promises = <<>>
    /\ received = 0
    /\ lastIn = NoEvent
    /\ lastOut = <<>>
    /\ joins = 0
    /\ closes = 0
    /\ refresh = NoRefresh

\* the transport opens (no handler is installed for it)
WsOpen ==
    /\ ws = "connecting"
    /\ ws' = "open"
    /\ lastIn' = [event |-> "open"]
    /\ lastOut' = <<>>
    /\ UNCHANGED <<accVars, streamVars, phase, ready, timeout, nextAckId,
                   pendingAcks, timers, promises, received, joins, closes,
                   refresh>>

\* a variant that takes the join-ack in any phase
HandshakeMessageAnyPhase(f) ==
    IF IsPing(f)
    THEN /\ lastOut' = <<Pong>>
         /\ UNCHANGED <<phase, ready, timeout, joins>>
    ELSE IF f.head = "0{" /\ phase = 0
    THEN /\ phase' = 1
         /\ lastOut' = <<JoinFrame>>
         /\ joins' = joins + 1
         /\ UNCHANGED <<ready, timeout>>
    ELSE IF f.head = "40"
    THEN /\ timeout' = FALSE
         /\ phase' = 2
         /\ ready' = Settle(ready, [state |-> "resolved"])
         /\ lastOut' = <<>>
         /\ UNCHANGED joins
    ELSE IF f.head = "44"
    THEN /\ timeout' = FALSE
         /\ ready' = Settle(ready, Rejected(<<"Socket.IO connect error: ", f.rest>>))
         /\ lastOut' = <<>>
         /\ UNCHANGED <<phase, joins>>
    ELSE /\ lastOut' = <<>>
         /\ UNCHANGED <<phase, ready, timeout, joins>>

\* the onmessage handler of the constructor, for the frame f
HandshakeMessage(f) ==
    IF IsPing(f)
    THEN /\ lastOut' = <<Pong>>
         /\ UNCHANGED <<phase, ready, timeout, joins>>
    ELSE IF f.head = "0{" /\ phase = 0
    THEN /\ phase' = 1
         /\ lastOut' = <<JoinFrame>>
         /\ joins' = joins + 1
         /\ UNCHANGED <<ready, timeout>>
    ELSE IF f.head = "40" /\ phase = 1
    THEN /\ timeout' = FALSE
         /\ phase' = 2
         /\ ready' = Settle(ready, [state |-> "resolved"])
         /\ lastOut' = <<>>
         /\ UNCHANGED joins
    ELSE IF f.head = "44"
    THEN /\ timeout' = FALSE
         /\ ready' = Settle(ready, Rejected(<<"Socket.IO connect error: ", f.rest>>))
         /\ lastOut' = <<>>
         /\ UNCHANGED <<phase, joins>>
    ELSE /\ lastOut' = <<>>
         /\ UNCHANGED <<phase, ready, timeout, joins>>

\* a variant that settles the call with the whole decoded payload
AckOutcomeWhole(f) ==
    LET text == AckText(f)
    IN  IF text = [lit |-> ""] THEN Resolved(Undefined)
        ELSE IF Has(text, "lit")
        THEN Rejected(<<"Malformed ACK payload for ack ", AckId(f)>>)
        ELSE IF IsErrorResult(text.json) THEN Rejected(ErrorMessage(text.json))
        ELSE Resolved(text.json)

\* how the handler settles the pending call of an ack frame
AckOutcome(f) ==
    LET text == AckText(f)
        result == AckResult(text.json)
    IN  IF text = [lit |-> ""] THEN Resolved(Undefined)
        ELSE IF Has(text, "lit")
        THEN Rejected(<<"Malformed ACK payload for ack ", AckId(f)>>)
        ELSE IF IsErrorResult(result) THEN Rejected(ErrorMessage(result))
        ELSE Resolved(result)

\* a variant that decodes the payload before it takes the call off the table
RpcMessageDecodeFirst(f) ==
    IF IsPing(f)
    THEN /\ lastOut' = <<Pong>>
         /\ UNCHANGED <<pendingAcks, timers, promises>>
    ELSE IF f.head # "43" \/ AckId(f) \notin pendingAcks
    THEN /\ lastOut' = <<>>
         /\ UNCHANGED <<pendingAcks, timers, promises>>
    ELSE IF Has(AckText(f), "lit") /\ AckText(f).lit # ""
    THEN /\ promises' = SettleAll({AckId(f)}, AckOutcome(f))
         /\ lastOut' = <<>>
         /\ UNCHANGED <<pendingAcks, timers>>
    ELSE /\ pendingAcks' = pendingAcks \ {AckId(f)}
         /\ timers' = timers \ {AckId(f)}
         /\ promises' = SettleAll({AckId(f)}, AckOutcome(f))
         /\ lastOut' = <<>>

\* a variant that leaves the timer of the acknowledged call armed
RpcMessageKeepTimer(f) ==
    IF IsPing(f)
    THEN /\ lastOut' = <<Pong>>
         /\ UNCHANGED <<pendingAcks, timers, promises>>
    ELSE IF f.head # "43" \/ AckId(f) \notin pendingAcks
    THEN /\ lastOut' = <<>>
         /\ UNCHANGED <<pendingAcks, timers, promises>>
    ELSE /\ pendingAcks' = pendingAcks \ {AckId(f)}
         /\ timers' = timers
         /\ promises' = SettleAll({AckId(f)}, AckOutcome(f))
         /\ lastOut' = <<>>

\* the onmessage handler of #installRpcHandler, for the frame f
RpcMessage(f) ==
    IF IsPing(f)
    THEN /\ lastOut' = <<Pong>>
         /\ UNCHANGED <<pendingAcks, timers, promises>>
    ELSE IF f.head # "43" \/ AckId(f) \notin pendingAcks
    THEN /\ lastOut' = <<>>
         /\ UNCHANGED <<pendingAcks, timers, promises>>
    ELSE /\ pendingAcks' = pendingAcks \ {AckId(f)}
         /\ timers' = timers \ {AckId(f)}
         /\ promises' = SettleAll({AckId(f)}, AckOutcome(f))
         /\ lastOut' = <<>>

\* a frame arrives: the handler installed at the time runs
Receive(f) ==
    /\ ws \in {"open", "closing"}
    /\ received < MaxFrames
    /\ received' = received + 1
    /\ lastIn' = [event |-> "message", frame |-> f]
    /\ IF phase = 2
       THEN RpcMessage(f) /\ UNCHANGED <<phase, ready, timeout, joins>>
       ELSE HandshakeMessage(f) /\ UNCHANGED <<pendingAcks, timers, promises>>
    /\ UNCHANGED <<accVars, streamVars, ws, nextAckId, closes, refresh>>

\* onerror, which the constructor installs and nothing replaces
SocketError ==
    /\ ws \in {"connecting", "open", "closing"}
    /\ timeout' = FALSE
    /\ ready' = Settle(ready, Rejected(<<"WebSocket error">>))
    /\ lastIn' = [event |-> "error"]
    /\ lastOut' = <<>>
    /\ UNCHANGED <<accVars, streamVars, ws, phase, nextAckId, pendingAcks,
                   timers, promises, received, joins, closes, refresh>>

\* a variant of onclose that leaves the promise to the connect timer
SocketCloseSilent ==
    /\ ws \in {"connecting", "open", "closing"}
    /\ ws' = "closed"
    /\ lastIn' = [event |-> "close"]
    /\ lastOut' = <<>>
    /\ IF phase = 2
       THEN /\ promises' = SettleAll(pendingAcks, Rejected(<<"Socket closed">>))
            /\ timers' = timers \ pendingAcks
            /\ pendingAcks' = {}
            /\ UNCHANGED <<ready, timeout>>
       ELSE UNCHANGED <<ready, timeout, pendingAcks, timers, promises>>
    /\ UNCHANGED <<accVars, streamVars, phase, nextAckId, received, joins,
                   closes, refresh>>

\* the socket closes: the onclose installed at the time runs
SocketClose ==
    /\ ws \in {"connecting", "open", "closing"}
    /\ ws' = "closed"
    /\ lastIn' = [event |-> "close"]
    /\ lastOut' = <<>>
    /\ IF phase = 2
       THEN /\ promises' = SettleAll(pendingAcks, Rejected(<<"Socket closed">>))
            /\ timers' = timers \ pendingAcks
            /\ pendingAcks' = {}
            /\ UNCHANGED <<ready, timeout>>
       ELSE /\ timeout' = FALSE
            /\ ready' = Settle(ready, Rejected(<<"WebSocket closed during handshake">>))
            /\ UNCHANGED <<pendingAcks, timers, promises>>
    /\ UNCHANGED <<accVars, streamVars, phase, nextAckId, received, joins,
                   closes, refresh>>

\* the connect timer fires
ConnectTimeout ==
    /\ timeout
    /\ timeout' = FALSE
    /\ ready' = Settle(ready, Rejected(<<"Socket.IO connection timeout">>))
    /\ lastIn' = [event |-> "timeout"]
    /\ lastOut' = <<>>
    /\ UNCHANGED <<accVars, streamVars, ws, phase, nextAckId, pendingAcks,
                   timers, promises, received, joins, closes, refresh>>

\* a variant that takes the size of the table as the id
emitWithAckTableSize ==
    LET id == Cardinality(pendingAcks)
    IN  /\ nextAckId' = nextAckId + 1
        /\ timers' = timers \cup {id}
        /\ pendingAcks' = pendingAcks \cup {id}
        /\ promises' = IF id < Len(promises)
                       THEN [promises EXCEPT ![id + 1] = Pending]
                       ELSE Append(promises, Pending)
        /\ lastIn' = [event |-> "emitWithAck", id |-> id]
        /\ lastOut' = IF ws = "open" THEN <<CallFrame(id)>> ELSE <<>>
        /\ UNCHANGED <<ws, phase, ready, timeout, received, joins, closes>>

\* emitWithAck("refreshJWT", data): the next id, a timer, an entry in the
\* table, and the event frame sent (a socket that is closing or closed
\* discards it)
emitWithAck ==
    /\ nextAckId' = nextAckId + 1
    /\ timers' = timers \cup {nextAckId}
    /\ pendingAcks' = pendingAcks \cup {nextAckId}
    /\ promises' = Append(promises, Pending)
    /\ lastIn' = [event |-> "emitWithAck", id |-> nextAckId]
    /\ lastOut' = IF ws = "open" THEN <<CallFrame(nextAckId)>> ELSE <<>>
    /\ UNCHANGED <<ws, phase, ready, timeout, received, joins, closes>>

\* a caller calls emitWithAck on a socket that has opened
EmitWithAck ==
    /\ ws \in {"open", "closing", "closed"}
    /\ nextAckId < MaxCalls
    /\ emitWithAck
    /\ UNCHANGED <<accVars, streamVars, refresh>>

\* a variant of the timer callback that clears the whole table
RpcTimeoutClearTable(id) ==
    /\ id \in timers
    /\ timers' = timers \ {id}
    /\ pendingAcks' = {}
    /\ promises' = SettleAll({id}, Rejected(<<"RPC timeout: ", "refreshJWT">>))
    /\ lastIn' = [event |-> "rpcTimeout", id |-> id]
    /\ lastOut' = <<>>
    /\ UNCHANGED <<accVars, streamVars, ws, phase, ready, timeout, nextAckId,
                   received, joins, closes, refresh>>

\* a variant of the timer callback that leaves the entry in the table
RpcTimeoutKeepEntry(id) ==
    /\ id \in timers
    /\ timers' = timers \ {id}
    /\ promises' = SettleAll({id}, Rejected(<<"RPC timeout: ", "refreshJWT">>))
    /\ lastIn' = [event |-> "rpcTimeout", id |-> id]
    /\ lastOut' = <<>>
    /\ UNCHANGED <<accVars, streamVars, ws, phase, ready, timeout, nextAckId,
                   pendingAcks, received, joins, closes, refresh>>

\* the timer of the call with the id fires
RpcTimeout(id) ==
    /\ id \in timers
    /\ timers' = timers \ {id}
    /\ pendingAcks' = pendingAcks \ {id}
    /\ promises' = SettleAll({id}, Rejected(<<"RPC timeout: ", "refreshJWT">>))
    /\ lastIn' = [event |-> "rpcTimeout", id |-> id]
    /\ lastOut' = <<>>
    /\ UNCHANGED <<accVars, streamVars, ws, phase, ready, timeout, nextAckId,
                   received, joins, closes, refresh>>

\* a variant of close() that rejects every call the socket ever made
closeRejectsEvery ==
    /\ promises' = [i \in 1..Len(promises) |-> Rejected(<<"Socket closed">>)]
    /\ timers' = timers \ pendingAcks
    /\ pendingAcks' = {}
    /\ ws' = IF ws \in {"connecting", "open"} THEN "closing" ELSE ws
    /\ closes' = closes + 1
    /\ lastIn' = [event |-> "close()"]
    /\ lastOut' = <<>>
    /\ UNCHANGED <<phase, ready, timeout, nextAckId, received, joins>>

\* close(): every call in the table is rejected and its timer cleared, the
\* table is cleared, and this.#ws.close() starts the closing handshake of a
\* socket that is connecting or open (what it throws is caught)
close ==
    /\ promises' = SettleAll(pendingAcks, Rejected(<<"Socket closed">>))
    /\ timers' = timers \ pendingAcks
    /\ pendingAcks' = {}
    /\ ws' = IF ws \in {"connecting", "open"} THEN "closing" ELSE ws
    /\ closes' = closes + 1
    /\ lastIn' = [event |-> "close()"]
    /\ lastOut' = <<>>
    /\ UNCHANGED <<phase, ready, timeout, nextAckId, received, joins>>

\* a caller calls close()
Close ==
    /\ ws # "none"
    /\ closes < MaxCloses
    /\ close
    /\ UNCHANGED <<accVars, streamVars, refresh>>

SocketNext ==
    \/ WsOpen
    \/ \E f \in InFrames : Receive(f)
    \/ SocketError
    \/ SocketClose
    \/ ConnectTimeout
    \/ EmitWithAck
    \/ \E id \in 0..(MaxCalls - 1) : RpcTimeout(id)
    \/ Close

SocketSpec == SocketInit /\ [][SocketNext]_vars

\* the frames sent in the runs that follow promises to their end: those of
\* the handshake, and acks with a result, an error and no JSON text
LiveFrames ==
    {OpenFrame, JoinAck, ConnectError}
    \cup {AckFrame(id, p) :
            id \in 0..(MaxCalls - 1),
            p \in {[json |-> JArray(<<JObject([jwt |-> JString("new")])>>)],
                   [json |-> JObject([error |-> JString("denied"),
                                      error_message |-> JString("no session")])],
                   [lit |-> "{bad"]}}

LiveNext ==
    \/ WsOpen
    \/ \E f \in LiveFrames : Receive(f)
    \/ SocketError
    \/ SocketClose
    \/ ConnectTimeout
    \/ EmitWithAck
    \/ \E id \in 0..(MaxCalls - 1) : RpcTimeout(id)
    \/ Close

\* the socket with the timers of setTimeout firing in the end
SocketLiveSpec ==
    /\ SocketInit
    /\ [][LiveNext]_vars
    /\ WF_vars(ConnectTimeout)
    /\ \A id \in 0..(MaxCalls - 1) : WF_vars(RpcTimeout(id))

(***************************************************************************)
(* refreshToken (packages/cli/src/auth.ts): one socket, one call.  The      *)
(* continuation of an await runs as soon as its promise is settled, before  *)
(* the next event of the socket is handled.                                 *)
(***************************************************************************)
CurrentJwt == "current"

\* the texts a peer may put behind the id of the refreshJWT ack: those above,
\* and results with both tokens, a token that is no text, an empty token, an
\* empty perplexity_jwt next to a jwt
RefreshPayloads ==
    AckPayloads \cup
    {[json |-> JArray(<<JObject([perplexity_jwt |-> JString("fresh"),
                                 jwt |-> JString("new")])>>)],
     [json |-> JArray(<<JObject([jwt |-> JNumber(1)])>>)],
     [json |-> JArray(<<JObject([jwt |-> JString("")])>>)],
     [json |-> JArray(<<JObject([perplexity_jwt |-> JString(""),
                                 jwt |-> JString("new")])>>)]}

\* the frames a peer may send while refreshToken runs
RefreshFrames ==
    {Ping, OpenFrame, JoinAck, ConnectError, EventFrame}
    \cup {AckFrame(0, p) : p \in RefreshPayloads}
    \cup {AckFrame(1, [json |-> JArray(<<JObject([jwt |-> JString("new")])>>)])}

\* a variant that reads jwt before perplexity_jwt
RefreshedJwtFirst(res) ==
    LET o == IF res # Undefined /\ res.t = "object"
             THEN res.o ELSE EmptyObj
    IN  IF Has(o, "jwt") /\ o.jwt.t = "string" THEN o.jwt
        ELSE IF Has(o, "perplexity_jwt") /\ o.perplexity_jwt.t = "string"
        THEN o.perplexity_jwt
        ELSE Undefined

\* typeof response?.perplexity_jwt === "string" ? response.perplexity_jwt
\*   : typeof response?.jwt === "string" ? response.jwt : undefined
Refreshed(res) ==
    LET o == IF res # Undefined /\ res.t = "object"
             THEN res.o ELSE EmptyObj
    IN  IF Has(o, "perplexity_jwt") /\ o.perplexity_jwt.t = "string"
        THEN o.perplexity_jwt
        ELSE IF Has(o, "jwt") /\ o.jwt.t = "string" THEN o.jwt
        ELSE Undefined

\* what refreshToken returns once the promise p it awaited is settled:
\* if (!refreshed) return currentJwt; return refreshed; catch: currentJwt
RefreshReturn(p) ==
    IF p.state = "rejected" THEN CurrentJwt
    ELSE LET refreshed == Refreshed(p.value)
         IN  IF refreshed = Undefined THEN CurrentJwt
             ELSE IF refreshed.s = "" THEN CurrentJwt
             ELSE refreshed.s

\* const socket = new PerplexitySocket({jwt}); try { await socket.ready()
RefreshInit ==
    /\ entry = NewEntry
    /\ answer = <<>>
    /\ calls = 0
    /\ last = NoCall
    /\ fed = <<>>
    /\ method = "none"
    /\ NoStream
    /\ ws = "connecting"
    /\ phase = 0
    /\ ready = Pending
    /\ timeout = TRUE
    /\ nextAckId = 0
    /\ pendingAcks = {}
    /\ timers = {}
    /\ promises = <<>>
    /\ received = 0
    /\ lastIn = NoEvent
    /\ lastOut = <<>>
    /\ joins = 0
    /\ closes = 0
    /\ refresh = [pc |-> "ready"]

\* the promise refreshToken awaits is settled: its continuation runs next
Runnable ==
    \/ refresh.pc = "ready" /\ ready # Pending
    \/ refresh.pc = "call" /\ promises[1] # Pending

\* after await socket.ready(): the call is made, or the rejection is caught,
\* the current token returned and the socket closed by the finally block
RefreshAfterReady ==
    /\ refresh.pc = "ready"
    /\ ready # Pending
    /\ IF ready.state = "resolved"
       THEN /\ emitWithAck
            /\ refresh' = [pc |-> "call"]
       ELSE /\ close
            /\ refresh' = [pc |-> "returned", value |-> CurrentJwt]
    /\ UNCHANGED <<accVars, streamVars>>

\* after await socket.emitWithAck(...): the token is picked or the rejection
\* caught, and the socket closed by the finally block
RefreshAfterCall ==
    /\ refresh.pc = "call"
    /\ promises[1] # Pending
    /\ close
    /\ refresh' = [pc |-> "returned", value |-> RefreshReturn(promises[1])]
    /\ UNCHANGED <<accVars, streamVars>>

RefreshNext ==
    \/ RefreshAfterReady
    \/ RefreshAfterCall
    \/ ~Runnable /\ WsOpen
    \/ ~Runnable /\ \E f \in RefreshFrames : Receive(f)
    \/ ~Runnable /\ SocketError
    \/ ~Runnable /\ SocketClose
    \/ ~Runnable /\ ConnectTimeout
    \/ ~Runnable /\ RpcTimeout(0)

RefreshSpec == RefreshInit /\ [][RefreshNext]_vars

(***************************************************************************)
(* Properties of one update call, read off the record of the last call.    *)
(***************************************************************************)
Called == Has(last, "update")

\* p is a prefix of s
IsPrefixOf(p, s) == \E n \in 0..Len(s) : p = SubSeq(s, 1, n)

\* the markdown payload the entry e holds for key, if any
HasMarkdownFor(e, key) ==
    \E i \in 1..Len(e.blocks) :
        e.blocks[i].intended_usage = key /\ Has(e.blocks[i], "markdown_block")

MarkdownFor(e, key) ==
    e.blocks[CHOOSE i \in 1..Len(e.blocks) : e.blocks[i].intended_usage = key].markdown_block

ChunksOf(md) == IF Has(md, "chunks") THEN md.chunks ELSE <<>>

\* the first k elements of s (all of s when k exceeds its length)
FirstK(s, k) == [i \in 1..(IF k < Len(s) THEN k ELSE Len(s)) |-> s[i]]

\* the incoming blocks of the last call that carry a markdown payload for a
\* key the payload names once and the running entry already had a payload for
SplicedBlocks ==
    IF ~Called \/ ~Has(last.incoming, "blocks") THEN {}
    ELSE {i \in 1..Len(last.incoming.blocks) :
            LET b == last.incoming.blocks[i]
            IN  /\ Has(b, "markdown_block")
                /\ HasMarkdownFor(last.prevEntry, b.intended_usage)
                /\ \A j \in 1..Len(last.incoming.blocks) :
                       last.incoming.blocks[j].intended_usage = b.intended_usage => j = i}

\* C1: for every update call, with P the answer stored before and A the
\* answer extracted after the merge: if A starts with P the delta is the
\* suffix of A after P (P followed by delta is A), otherwise the delta is
\* the whole of A; the stored answer becomes A.
C1_DeltaIsSuffixOrWhole ==
    Called =>
        LET P == last.prevAnswer
            A == extractAnswer(entry)
            d == last.update.delta
        IN  /\ last.update.answer = A
            /\ answer = A
            /\ IsPrefixOf(P, A) => P \o d = A
            /\ ~IsPrefixOf(P, A) => d = A

\* a call whose answer grew from a non-empty stored answer
C1_Witness ==
    /\ Called
    /\ last.prevAnswer # <<>>
    /\ last.update.delta # <<>>
    /\ last.update.answer = last.prevAnswer \o last.update.delta
    /\ last.update.answer # last.update.delta

\* C2: a markdown payload for a key that already has one, with a non-zero
\* chunk_starting_offset k: the merged chunks are the first k accumulated
\* chunks followed by the incoming chunks, for every incoming chunk sequence
\* (the empty one included) and every k.
C2_SpliceAtOffset ==
    \A i \in SplicedBlocks :
        LET b   == last.incoming.blocks[i]
            inc == b.markdown_block
            old == MarkdownFor(last.prevEntry, b.intended_usage)
            new == MarkdownFor(entry, b.intended_usage)
        IN  (/\ Has(inc, "chunk_starting_offset")
             /\ inc.chunk_starting_offset # 0
             /\ Has(inc, "chunks"))
            => ChunksOf(new) = FirstK(ChunksOf(old), inc.chunk_starting_offset) \o inc.chunks

\* C3: a markdown payload for a key that already has one, with
\* chunk_starting_offset 0 or absent: the merged chunks are exactly the
\* incoming chunks, whatever was accumulated.
C3_ReplaceAtZero ==
    \A i \in SplicedBlocks :
        LET b   == last.incoming.blocks[i]
            inc == b.markdown_block
            new == MarkdownFor(entry, b.intended_usage)
        IN  (/\ Has(inc, "chunk_starting_offset") => inc.chunk_starting_offset = 0
             /\ Has(inc, "chunks"))
            => /\ Has(new, "chunks")
               /\ new.chunks = inc.chunks

\* two accumulated chunks replaced by one incoming chunk
C3_Witness ==
    \E i \in SplicedBlocks :
        LET b   == last.incoming.blocks[i]
            inc == b.markdown_block
            old == MarkdownFor(last.prevEntry, b.intended_usage)
            new == MarkdownFor(entry, b.intended_usage)
        IN  /\ ~Has(inc, "chunk_starting_offset")
            /\ Has(inc, "chunks") /\ Len(inc.chunks) = 1
            /\ Len(ChunksOf(old)) = 2
            /\ inc.chunks[1] # old.chunks[1]
            /\ new.chunks = inc.chunks

\* C10: isFinal is true iff the incoming payload has a truthy final flag or
\* the status COMPLETED; it depends on the incoming payload only.
C10_FinalOfIncoming ==
    Called =>
        (last.update.isFinal
            <=> \/ Has(last.incoming, "final") /\ last.incoming.final = TRUE
                \/ Has(last.incoming, "status") /\ last.incoming.status = "COMPLETED")

\* a call that is not final although the merged entry holds final = true and
\* the status COMPLETED from an earlier payload
C10_Witness ==
    /\ Called
    /\ ~last.update.isFinal
    /\ Has(entry, "final") /\ entry.final
    /\ Has(entry, "status") /\ entry.status = "COMPLETED"

(***************************************************************************)
(* Properties of one client call, read off the log of the items taken.     *)
(***************************************************************************)
\* the trimmed text of the item the j-th log record is about
TextOf(j) == Trim(arrived[log[j].at])

\* it parses, to an object
ParsesToObject(text) == Has(text, "json") /\ text.json.t = "object"

\* the number of items yielded among the first j taken
RECURSIVE YieldsUpTo(_)
YieldsUpTo(j) ==
    IF j = 0 THEN 0
    ELSE YieldsUpTo(j - 1) + (IF log[j].outcome = "yield" THEN 1 ELSE 0)

\* the payloads yielded so far, in the order they were taken
RECURSIVE YieldedUpTo(_)
YieldedUpTo(j) ==
    IF j = 0 THEN <<>>
    ELSE YieldedUpTo(j - 1)
         \o (IF log[j].outcome = "yield" THEN <<TextOf(j).json>> ELSE <<>>)

\* the server reports a failure: status failed or FAILED, or an error code
ReportsFailure(text) ==
    /\ ParsesToObject(text)
    /\ \/ Has(text.json.o, "status") /\ text.json.o.status \in {"failed", "FAILED"}
       \/ Has(text.json.o, "error_code") /\ text.json.o.error_code # ""

\* C4: a payload that parses and has the status failed or FAILED, or carries
\* an error code (a non-empty one), ends the sequence with a
\* PerplexityStreamError whose message is the server's text and whose code is
\* the server's error code; it is not emitted, and nothing is taken or
\* emitted after it.
C4_FailureEndsStream ==
    \A j \in 1..Len(log) :
        ReportsFailure(TextOf(j)) =>
            LET o == TextOf(j).json.o
            IN  /\ log[j].outcome # "yield"
                /\ j = Len(log)
                /\ Len(emitted) = YieldsUpTo(j - 1)
                /\ pc = "failed"
                /\ error.name = "PerplexityStreamError"
                /\ Has(o, "text") => error.message = o.text
                /\ Has(o, "error_code") <=> Has(error, "code")
                /\ Has(o, "error_code") => error.code = o.error_code

\* the failure of the spec's example, thrown after one update was emitted and
\* with a payload of the same chunk left in the queue
C4_Witness ==
    /\ pc = "failed"
    /\ error = [name |-> "PerplexityStreamError", message |-> "quota exceeded",
                code |-> "E1"]
    /\ Len(emitted) = 1
    /\ queue # <<>>
    /\ Outcome(Trim(Head(queue).data)) = "yield"

\* C5: a payload that is exactly [DONE] is not emitted, raises no error and
\* ends the sequence: no payload that arrives after it is emitted.
C5_DoneEndsSequence ==
    \A j \in 1..Len(log) :
        TextOf(j) = [lit |-> "[DONE]"] =>
            /\ log[j].outcome = "skip"
            /\ \A k \in (j + 1)..Len(log) : log[k].outcome # "yield"
            /\ Len(emitted) = YieldsUpTo(j)

\* noise: a payload that is empty after trimming or is no JSON text
IsNoise(text) == Has(text, "lit") /\ text # [lit |-> "[DONE]"]

\* C6: a payload that fails to parse, or is empty after trimming, is dropped
\* without an error and without ending the sequence; items are taken in
\* arrival order, and every item taken that parses to a value other than
\* null and reports no failure is emitted, before and after the noise (the
\* loop goes on to the items left unless the consumer itself returns).
C6_NoiseIsDropped ==
    /\ \A j \in 1..Len(log) :
          /\ log[j].at = j
          /\ IsNoise(TextOf(j)) =>
                /\ log[j].outcome = "skip"
                /\ j = Len(log) => /\ error \in {NoError, [name |-> "ReadError"]}
                                   /\ queue # <<>> => pc \in {"drain", "returned"}
          /\ (Has(TextOf(j), "json") /\ TextOf(j).json # JNull
                /\ ~ReportsFailure(TextOf(j))) => log[j].outcome = "yield"
    /\ Len(emitted) = YieldsUpTo(Len(log))
    /\ pc = "read" => Len(log) = Len(arrived)

\* an update emitted, then noise dropped, then another update emitted
C6_Witness ==
    /\ Len(log) = 3
    /\ log[1].outcome = "yield"
    /\ IsNoise(TextOf(2))
    /\ TextOf(2) = [lit |-> "{bad"]
    /\ log[3].outcome = "yield"
    /\ Len(emitted) = 2

\* C7: a payload whose status is BLOCKED ends the sequence with a
\* PerplexityStreamError carrying the server's message and code, and is not
\* emitted as an update.
C7_BlockedEndsStream ==
    \A j \in 1..Len(log) :
        (ParsesToObject(TextOf(j)) /\ Has(TextOf(j).json.o, "status")
            /\ TextOf(j).json.o.status = "BLOCKED") =>
            /\ log[j].outcome # "yield"
            /\ pc = "failed"
            /\ error.name = "PerplexityStreamError"

\* the running entry after the first i yielded payloads were merged, in order,
\* into the entry of a fresh accumulator
RECURSIVE MergedUpTo(_)
MergedUpTo(i) ==
    IF i = 0 THEN NewEntry
    ELSE mergeEntries(MergedUpTo(i - 1), Props(YieldedUpTo(Len(log))[i]))

\* C8: the updates are emitted in the arrival order of the payloads, one per
\* yielded payload: update i holds the merge of payloads 1..i in that order.
C8_ArrivalOrder ==
    /\ \A j \in 1..Len(log) : log[j].at = j
    /\ Len(emitted) = YieldsUpTo(Len(log))
    /\ \A i \in 1..Len(emitted) :
          /\ emitted[i].entry = MergedUpTo(i)
          /\ emitted[i] = update(MergedUpTo(i - 1), extractAnswer(MergedUpTo(i - 1)),
                                 Props(YieldedUpTo(Len(log))[i]))

\* two updates emitted for two payloads of which the second splices after the
\* first
C8_Witness ==
    /\ Len(emitted) = 2
    /\ emitted[1].answer = <<"a">>
    /\ emitted[2].answer = <<"a", "b">>
    /\ emitted[2].delta = <<"b">>

\* C9: no update is emitted after a final one; when the call ends it returns
\* one response whose entry and answer are those of the last update emitted,
\* and ask returns that response.
C9_NothingAfterFinal ==
    /\ \A i \in 1..(Len(emitted) - 1) : ~emitted[i].isFinal
    /\ (emitted # <<>> /\ emitted[Len(emitted)].isFinal) => pc = "done"
    /\ pc # "done" => response = NoResponse
    /\ pc = "done" =>
          /\ response # NoResponse
          /\ response.entry = entry /\ response.answer = answer
          /\ emitted # <<>> =>
                /\ response.entry = emitted[Len(emitted)].entry
                /\ response.answer = emitted[Len(emitted)].answer
          /\ ask = [returned |-> response]

\* a call ended by a final update, the second one emitted, with a payload
\* left in the queue that would have been emitted
C9_Witness ==
    /\ pc = "done"
    /\ Len(emitted) = 2
    /\ emitted[2].isFinal
    /\ response.answer = emitted[2].answer
    /\ response.answer # <<>>
    /\ queue # <<>>
    /\ Outcome(Trim(Head(queue).data)) = "yield"

(***************************************************************************)
(* Properties of the merge of payloads of several blocks.                  *)
(***************************************************************************)
\* the block has a key that contains "markdown" and a markdown payload
Qualifies(b) == Includes(b.intended_usage, "markdown") /\ Has(b, "markdown_block")

\* the block is keyed exactly ask_text and has a markdown payload
IsAskText(b) == b.intended_usage = <<"ask_text">> /\ Has(b, "markdown_block")

\* the answer field if populated, else the chunks joined with no separator
RuleText(md) ==
    IF Has(md, "answer") /\ md.answer # <<>> THEN md.answer ELSE Join(ChunksOf(md))

\* the blocks of e before the i-th
Before(e, i) == {e.blocks[j] : j \in 1..(i - 1)}

\* C11: the answer of an update is the text, by the rule "answer if
\* populated, else chunks joined", of the first block in collection order
\* whose key contains "markdown" and that carries a markdown payload; if that
\* yields no text (no such block, or no text in it), the text by the same rule
\* of the first block keyed exactly ask_text; if neither yields text, the
\* empty string.
C11_AnswerOfFirstMarkdown ==
    Called =>
        LET e == entry
            a == last.update.answer
            n == Len(e.blocks)
        IN  /\ \A i \in 1..n :
                  (Qualifies(e.blocks[i])
                      /\ (\A b \in Before(e, i) : ~Qualifies(b))
                      /\ RuleText(e.blocks[i].markdown_block) # <<>>)
                  => a = RuleText(e.blocks[i].markdown_block)
            /\ \A i \in 1..n :
                  (IsAskText(e.blocks[i])
                      /\ (\A b \in Before(e, i) : ~IsAskText(b))
                      /\ (\A j \in 1..n :
                             (Qualifies(e.blocks[j])
                                 /\ \A b \in Before(e, j) : ~Qualifies(b))
                             => RuleText(e.blocks[j].markdown_block) = <<>>))
                  => a = RuleText(e.blocks[i].markdown_block)
            /\ (\A i \in 1..n :
                  (Qualifies(e.blocks[i]) \/ IsAskText(e.blocks[i]))
                  => RuleText(e.blocks[i].markdown_block) = <<>>)
               => a = <<>>

\* two blocks that qualify, with different texts, the first with an answer
\* and chunks: the answer of the update is the answer field of the first
C11_Witness ==
    /\ Called
    /\ Len(entry.blocks) = 2
    /\ Qualifies(entry.blocks[1]) /\ Qualifies(entry.blocks[2])
    /\ RuleText(entry.blocks[1].markdown_block) = <<"a", "b">>
    /\ ChunksOf(entry.blocks[1].markdown_block) = << <<"b">> >>
    /\ RuleText(entry.blocks[2].markdown_block) = <<"a">>
    /\ last.update.answer = <<"a", "b">>

\* the last payload carried two blocks, both with the key of the first
SameKeyTwice ==
    /\ Called
    /\ Has(last.incoming, "blocks")
    /\ Len(last.incoming.blocks) = 2
    /\ last.incoming.blocks[1].intended_usage = last.incoming.blocks[2].intended_usage

\* C12: after any sequence of update calls, the running entry holds at most
\* one block per intended_usage, also when one payload carries a key twice;
\* the same holds of the entry of the update returned.
C12_OneBlockPerKey ==
    /\ \A i, j \in 1..Len(entry.blocks) :
          entry.blocks[i].intended_usage = entry.blocks[j].intended_usage => i = j
    /\ Called => last.update.entry = entry

\* a payload that carried one key twice, merged into an entry that already
\* held a block for that key and a block for another key
C12_Witness ==
    /\ SameKeyTwice
    /\ Len(last.prevEntry.blocks) = 2
    /\ HasMarkdownFor(last.prevEntry, last.incoming.blocks[1].intended_usage)
    /\ Len(entry.blocks) = 2

\* the two blocks of the last payload, and the merged block for their key
First == last.incoming.blocks[1]
Second == last.incoming.blocks[2]
MergedBlock == MapGet(entry.blocks, First.intended_usage)

\* the block for that key once the first of the two was merged
AfterFirst ==
    MapGet(mergeBlocks(last.prevEntry.blocks, <<First>>), First.intended_usage)

NonBlockFields(e) == DOMAIN e \ {"blocks"}

\* C14: mergeEntries gives every non-block field the value of incoming when
\* incoming carries it and the value of existing otherwise, and keeps the
\* blocks of existing unchanged when incoming carries no blocks (absent, or
\* an empty list).
C14_LastWritePerField ==
    Called =>
        LET inc  == last.incoming
            prev == last.prevEntry
        IN  /\ NonBlockFields(entry) = NonBlockFields(inc) \cup NonBlockFields(prev)
            /\ \A f \in NonBlockFields(entry) :
                  entry[f] = IF Has(inc, f) THEN inc[f] ELSE prev[f]
            /\ (~Has(inc, "blocks") \/ inc.blocks = <<>>) => entry.blocks = prev.blocks

\* an entry with a block, a status and a text, merged with a payload that
\* carries another status, no text and an empty list of blocks
C14_Witness ==
    /\ Called
    /\ last.prevEntry.blocks # <<>>
    /\ Has(last.prevEntry, "status") /\ Has(last.prevEntry, "text")
    /\ Has(last.incoming, "blocks") /\ last.incoming.blocks = <<>>
    /\ ~Has(last.incoming, "text")
    /\ last.incoming.status # last.prevEntry.status
    /\ entry.status = last.incoming.status
    /\ entry.text = last.prevEntry.text
    /\ entry.blocks = last.prevEntry.blocks

\* the blocks of the running entry once the first i blocks of the last payload
\* were merged
BlocksUpTo(i) ==
    mergeBlocks(last.prevEntry.blocks, SubSeq(last.incoming.blocks, 1, i))

\* the block that the i-th block of the last payload meets under its key
PrevOf(i) == MapGet(BlocksUpTo(i - 1), last.incoming.blocks[i].intended_usage)

\* the i-th block of the last payload is a structural-patch block and applying
\* its operations fails
PatchFails(i) ==
    LET b == last.incoming.blocks[i]
    IN  /\ Has(b, "diff_block")
        /\ ~Has(b, "markdown_block")
        /\ ~applyPatch(CurrentValue(PrevOf(i), b.diff_block.field, b.diff_block.patches),
                       b.diff_block.patches).ok

\* C15: when applying the operations of a structural-patch block fails, update
\* does not raise: the block for that key becomes the shallow merge of the
\* raw incoming block over the previous block, the remaining blocks of the
\* payload are still merged, and the update is returned.
C15_PatchFailureFallsBack ==
    (Called /\ Has(last.incoming, "blocks")) =>
        \A i \in 1..Len(last.incoming.blocks) :
            PatchFails(i) =>
                LET b == last.incoming.blocks[i]
                    n == Len(last.incoming.blocks)
                IN  /\ MapGet(BlocksUpTo(i), b.intended_usage)
                          = Spread(SpreadPrev(PrevOf(i)), b)
                    /\ entry.blocks
                          = mergeBlocksLoop(BlocksUpTo(i), SubSeq(last.incoming.blocks, i + 1, n))
                    /\ \A j \in (i + 1)..n :
                          LET c == last.incoming.blocks[j]
                          IN  c.intended_usage # b.intended_usage =>
                                /\ MapGet(entry.blocks, b.intended_usage)
                                      = Spread(SpreadPrev(PrevOf(i)), b)
                                /\ MapHas(entry.blocks, c.intended_usage)
                                /\ \A f \in DOMAIN c \ {"markdown_block"} :
                                      MapGet(entry.blocks, c.intended_usage)[f] = c[f]
                    /\ last.update.entry = entry
                    /\ last.update.answer = extractAnswer(entry)

\* a patch that fails on a block that held a content, followed in the same
\* payload by a markdown block under a new key: the first block holds its old
\* content and the raw diff_block, the second was merged and gives the answer
C15_Witness ==
    /\ Called
    /\ Has(last.incoming, "blocks") /\ Len(last.incoming.blocks) = 2
    /\ PatchFails(1)
    /\ PrevOf(1) # Undefined
    /\ Has(PrevOf(1), "content")
    /\ Second.intended_usage = AskKey
    /\ ~MapHas(last.prevEntry.blocks, AskKey)
    /\ MergedBlock.content = PrevOf(1).content
    /\ MergedBlock.diff_block = First.diff_block
    /\ MapHas(entry.blocks, AskKey)
    /\ last.update.answer = <<"b">>

(***************************************************************************)
(* Properties of the reader of the response body.                          *)
(***************************************************************************)
\* the sequence of parseEventStream has ended
Ended == pc \in {"done", "failed", "returned"}

\* C16: whenever the sequence of parseEventStream has ended (the input is
\* complete, the consumer returned early or stopped at a final update, a
\* stream failure or a read error was thrown), the reader acquired on the
\* response body has been released; it is held while the sequence runs.
C16_ReaderReleased ==
    /\ Ended => ~locked
    /\ pc \in {"read", "drain"} => locked
    /\ locked => requests = 1

\* the consumer returned early after an update, with a payload left in the
\* queue, and the reader is released
C16_Witness ==
    /\ pc = "returned"
    /\ ~locked
    /\ emitted # <<>>
    /\ ~emitted[Len(emitted)].isFinal
    /\ queue # <<>>

(***************************************************************************)
(* Properties of the socket, read off one step: the event handled by the   *)
(* step is lastIn', the frames it sent are lastOut'.                       *)
(***************************************************************************)
\* the step handles an inbound frame
Receives == received' = received + 1

ResolvedReady == [state |-> "resolved"]

\* C17: the ready promise resolves only after the open frame was received,
\* then the join frame sent, then the join-ack received: it resolves on a
\* join-ack handled in phase 1, phase 1 is entered only by the step that
\* handles the open frame and sends the join frame, a join-ack in phase 0
\* changes nothing, and the join frame is sent at most once.
C17_ReadyAfterHandshake ==
    [][/\ (ready' = ResolvedReady /\ ready # ResolvedReady) =>
             /\ Receives /\ lastIn'.frame.head = "40"
             /\ phase = 1 /\ phase' = 2
             /\ joins = 1
       /\ phase' # phase =>
             /\ Receives
             /\ phase' = phase + 1
             /\ phase = 0 => (lastIn'.frame.head = "0{" /\ lastOut' = <<JoinFrame>>)
       /\ joins' # joins =>
             /\ joins = 0 /\ joins' = 1
             /\ phase = 0 /\ phase' = 1
       /\ (lastOut' # <<>> /\ lastOut'[1].head = "40") => joins' = joins + 1
       /\ (Receives /\ lastIn'.frame.head = "40" /\ phase = 0) =>
             (phase' = 0 /\ ready' = ready /\ timeout' = timeout)
      ]_vars

\* the socket is ready after three frames, one of which changed nothing
C17_Witness ==
    /\ ready = ResolvedReady
    /\ phase = 2
    /\ joins = 1
    /\ received = 3
    /\ lastIn = [event |-> "message", frame |-> JoinAck]
    /\ ~timeout

\* the step handles a connect-error frame, a socket error or a socket close
FailsHandshake ==
    \/ Receives /\ lastIn'.frame.head = "44"
    \/ lastIn' = [event |-> "error"] /\ lastIn # lastIn'
    \/ lastIn' = [event |-> "close"] /\ ws # "closed" /\ ws' = "closed"

\* C18: before the join-ack, a connect-error frame, a socket error or a
\* socket close rejects the ready promise in that step and disarms the
\* connect timer; a rejected promise stays rejected, with its error.
C18_HandshakeFailsAtOnce ==
    [][/\ (phase # 2 /\ FailsHandshake) =>
             /\ ready'.state = "rejected"
             /\ ~timeout'
             /\ ready = Pending =>
                   ready'.message \in {<<"Socket.IO connect error: ", "denied">>,
                                       <<"WebSocket error">>,
                                       <<"WebSocket closed during handshake">>}
       /\ ready.state = "rejected" => ready' = ready
      ]_vars

\* rejected by a connect-error frame after the join frame was sent, and still
\* rejected after the join-ack arrived (the timer never fired)
C18_Witness ==
    /\ ready = Rejected(<<"Socket.IO connect error: ", "denied">>)
    /\ phase = 2
    /\ lastIn = [event |-> "message", frame |-> JoinAck]
    /\ ~timeout

\* C19: in every phase each inbound frame "2" makes the client send exactly
\* one frame "3" and changes neither the phase, the ready promise, nor any
\* pending call; no other step sends a frame "3".
C19_HeartbeatEcho ==
    [][/\ (Receives /\ lastIn'.frame = Ping) =>
             /\ lastOut' = <<Pong>>
             /\ UNCHANGED <<phase, ready, timeout, nextAckId, pendingAcks, timers,
                            promises, joins, ws>>
       /\ (\E i \in 1..Len(lastOut') : lastOut'[i] = Pong) =>
             (Receives /\ lastIn'.frame = Ping)
      ]_vars

\* a heartbeat answered after ready, with a call pending
C19_Witness ==
    /\ lastIn = [event |-> "message", frame |-> Ping]
    /\ lastOut = <<Pong>>
    /\ phase = 2
    /\ pendingAcks = {0}
    /\ received = 3

\* C20: after the handshake, an ack frame whose id is that of a pending call
\* removes the call from the table, cancels its timer and, when its payload
\* decodes to a result that is no error object, resolves the call with the
\* first element of the payload if it is an array, else with the payload.
C20_AckResolves ==
    [][(/\ Receives
        /\ phase = 2
        /\ lastIn'.frame.head = "43"
        /\ AckId(lastIn'.frame) \in pendingAcks) =>
            LET f == lastIn'.frame
                id == AckId(f)
                text == AckText(f)
            IN  /\ pendingAcks' = pendingAcks \ {id}
                /\ timers' = timers \ {id}
                /\ \A i \in 1..Len(promises) : i # id + 1 => promises'[i] = promises[i]
                /\ (Has(text, "json") /\ text.json.t = "array" /\ text.json.a # <<>>
                       /\ ~IsErrorResult(text.json.a[1]))
                     => promises'[id + 1] = Resolved(text.json.a[1])
                /\ (Has(text, "json") /\ text.json.t # "array"
                       /\ ~IsErrorResult(text.json))
                     => promises'[id + 1] = Resolved(text.json)
      ]_vars

\* the second of two pending calls resolved with the first element of the
\* array of its ack, the first call still pending with its timer armed
C20_Witness ==
    /\ lastIn = [event |-> "message",
                 frame |-> AckFrame(1, [json |-> JArray(<<JObject([jwt |-> JString("new")])>>)])]
    /\ Len(promises) = 2
    /\ promises[2] = Resolved(JObject([jwt |-> JString("new")]))
    /\ promises[1] = Pending
    /\ pendingAcks = {0}
    /\ timers = {0}

\* the step handles an ack frame, after the handshake, whose id is that of a
\* pending call
MatchingAck ==
    /\ Receives
    /\ phase = 2
    /\ lastIn'.frame.head = "43"
    /\ AckId(lastIn'.frame) \in pendingAcks

\* C21: an ack frame of a pending call whose decoded result is an object with
\* an error key rejects the call with the error's message (error_message,
\* else error_code, else error, else "RPC error") and removes it from the
\* table; a rejected call is never resolved afterwards.
C21_ErrorAckRejects ==
    [][/\ (MatchingAck /\ Has(AckText(lastIn'.frame), "json")) =>
             LET id == AckId(lastIn'.frame)
                 payload == AckText(lastIn'.frame).json
                 result == IF payload.t = "array" /\ payload.a # <<>>
                           THEN payload.a[1] ELSE payload
             IN  (result.t = "object" /\ Has(result.o, "error")) =>
                     /\ promises'[id + 1] =
                            Rejected(IF ~Nullish(result.o, "error_message")
                                     THEN <<result.o.error_message.s>>
                                     ELSE IF ~Nullish(result.o, "error_code")
                                     THEN <<result.o.error_code.s>>
                                     ELSE IF ~Nullish(result.o, "error")
                                     THEN <<result.o.error.s>>
                                     ELSE <<"RPC error">>)
                     /\ pendingAcks' = pendingAcks \ {id}
                     /\ id \notin timers'
       /\ \A i \in 1..Len(promises) :
             promises[i].state = "rejected" => promises'[i] = promises[i]
      ]_vars

\* a call rejected with the error_message of its ack, still rejected after a
\* well-formed ack for the same id arrived
C21_Witness ==
    /\ Len(promises) = 1
    /\ promises[1] = Rejected(<<"no session">>)
    /\ pendingAcks = {}
    /\ lastIn = [event |-> "message",
                 frame |-> AckFrame(0, [json |-> JObject([jwt |-> JString("new")])])]

\* C22: an ack frame of a pending call whose payload is no JSON text rejects
\* the call with the parse error that names the id, removes the call from
\* the table and cancels its timer; a settled call is not settled again, and
\* only a pending call has a timer armed or an entry in the table.
C22_MalformedAckRejects ==
    [][/\ (MatchingAck /\ Has(AckText(lastIn'.frame), "lit")
                       /\ AckText(lastIn'.frame).lit # "") =>
             LET id == AckId(lastIn'.frame)
             IN  /\ promises'[id + 1] = Rejected(<<"Malformed ACK payload for ack ", id>>)
                 /\ pendingAcks' = pendingAcks \ {id}
                 /\ timers' = timers \ {id}
       /\ \A i \in 1..Len(promises) :
             promises[i] # Pending => promises'[i] = promises[i]
       /\ \A id \in timers \cup pendingAcks : promises[id + 1] = Pending
      ]_vars

\* a call rejected for a malformed payload, unchanged by the well-formed ack
\* for the same id that came next
C22_Witness ==
    /\ Len(promises) = 1
    /\ promises[1] = Rejected(<<"Malformed ACK payload for ack ", 0>>)
    /\ pendingAcks = {}
    /\ timers = {}
    /\ lastIn = [event |-> "message",
                 frame |-> AckFrame(0, [json |-> JArray(<<JObject([jwt |-> JString("new")])>>)])]

\* the step is the timer callback of the call with the id
TimesOut(id) ==
    /\ id \in timers
    /\ id \notin timers'
    /\ lastIn' = [event |-> "rpcTimeout", id |-> id]

\* C23: when the timer of a call fires, the call is rejected with the timeout
\* error that names the event, and its entry leaves the table; an ack frame
\* whose id is not in the table changes no call, the table or any timer.
C23_TimeoutRejects ==
    [][/\ \A id \in 0..(MaxCalls - 1) : TimesOut(id) =>
             /\ promises[id + 1] = Pending
             /\ promises'[id + 1] = Rejected(<<"RPC timeout: ", "refreshJWT">>)
             /\ pendingAcks' = pendingAcks \ {id}
             /\ \A i \in 1..Len(promises) : i # id + 1 => promises'[i] = promises[i]
       /\ (/\ Receives
           /\ lastIn'.frame.head = "43"
           /\ AckId(lastIn'.frame) \notin pendingAcks) =>
             UNCHANGED <<promises, pendingAcks, timers>>
      ]_vars

\* the first of two calls timed out, the second is pending, and the ack for
\* the first that came afterwards left both as they were
C23_Witness ==
    /\ Len(promises) = 2
    /\ promises[1] = Rejected(<<"RPC timeout: ", "refreshJWT">>)
    /\ promises[2] = Pending
    /\ pendingAcks = {1}
    /\ timers = {1}
    /\ lastIn = [event |-> "message",
                 frame |-> AckFrame(0, [json |-> JArray(<<JObject([jwt |-> JString("new")])>>)])]

\* the step is the close event of the socket
Closes ==
    /\ ws # "closed"
    /\ ws' = "closed"
    /\ lastIn' = [event |-> "close"]

\* C24: whenever the socket closes, during the handshake or after ready,
\* every call in the table is rejected with the error "Socket closed", its
\* timer is cancelled, and the table is empty afterwards.
C24_CloseRejectsAll ==
    [][Closes =>
          /\ \A id \in pendingAcks : promises'[id + 1] = Rejected(<<"Socket closed">>)
          /\ timers' \cap pendingAcks = {}
          /\ pendingAcks' = {}
      ]_vars

\* the step is a call of close()
CallsClose == closes' = closes + 1

\* C25: close() rejects every call in the table with the error "Socket
\* closed" and changes no other call, leaves the table and the timers empty,
\* and leaves the socket closing or closed, whatever state the socket was in;
\* a close() that follows a close() directly changes nothing.
C25_CloseIdempotent ==
    [][CallsClose =>
          /\ \A id \in pendingAcks : promises'[id + 1] = Rejected(<<"Socket closed">>)
          /\ \A i \in 1..Len(promises) :
                (i - 1) \notin pendingAcks => promises'[i] = promises[i]
          /\ Len(promises') = Len(promises)
          /\ pendingAcks' = {}
          /\ timers' = {}
          /\ ws' \in {"closing", "closed"}
          /\ lastIn' = [event |-> "close()"]
          /\ lastIn = [event |-> "close()"] =>
                UNCHANGED <<ws, phase, ready, timeout, nextAckId, pendingAcks,
                            timers, promises, received, lastOut, joins>>
      ]_vars

\* close() called twice in a row on a socket whose handshake never started,
\* with two calls pending at the first
C25_Witness ==
    /\ closes = 2
    /\ lastIn = [event |-> "close()"]
    /\ received = 0
    /\ phase = 0
    /\ ws = "closing"
    /\ promises = <<Rejected(<<"Socket closed">>), Rejected(<<"Socket closed">>)>>
    /\ pendingAcks = {}
    /\ timers = {}

\* the calls other than the one with the id are as they were: promise, entry
\* in the table, timer
OthersUntouched(id) ==
    \A j \in 0..(Len(promises) - 1) :
        j # id =>
            /\ promises'[j + 1] = promises[j + 1]
            /\ (j \in pendingAcks') = (j \in pendingAcks)
            /\ (j \in timers') = (j \in timers)

\* C26: the timeout of a call, the ack of a call and a new call leave every
\* other call as it was (its promise, its entry in the table, its timer); a
\* new call takes an id no call has had; a call is pending exactly while it
\* has an entry in the table and a timer armed, so that its own ack, once the
\* handshake is done, still finds it and resolves it.
C26_CallsIndependent ==
    [][/\ \A id \in 0..(MaxCalls - 1) : TimesOut(id) => OthersUntouched(id)
       /\ MatchingAck => OthersUntouched(AckId(lastIn'.frame))
       /\ nextAckId' # nextAckId =>
             /\ nextAckId = Len(promises)
             /\ nextAckId \notin pendingAcks \cup timers
             /\ OthersUntouched(nextAckId)
       /\ \A j \in 0..(Len(promises) - 1) :
             /\ (promises[j + 1] = Pending) = (j \in pendingAcks)
             /\ (promises[j + 1] = Pending) = (j \in timers)
       /\ (MatchingAck /\ AckText(lastIn'.frame) =
                             [json |-> JArray(<<JObject([jwt |-> JString("new")])>>)]) =>
             promises'[AckId(lastIn'.frame) + 1] = Resolved(JObject([jwt |-> JString("new")]))
      ]_vars

\* of two calls pending together after the handshake the second timed out,
\* and the first is still pending, in the table, with its timer armed
C26_Witness ==
    /\ promises = <<Pending, Rejected(<<"RPC timeout: ", "refreshJWT">>)>>
    /\ lastIn = [event |-> "rpcTimeout", id |-> 1]
    /\ pendingAcks = {0}
    /\ timers = {0}
    /\ phase = 2

(***************************************************************************)
(* Properties of refreshToken.                                             *)
(***************************************************************************)
\* the result the refreshJWT ack carried, if the call was resolved
AckedResult ==
    IF Len(promises) = 1 /\ promises[1].state = "resolved"
    THEN promises[1].value
    ELSE Undefined

\* the fields of the result, if it is an object
AckedFields ==
    IF AckedResult # Undefined /\ AckedResult.t = "object"
    THEN AckedResult.o
    ELSE EmptyObj

\* the result has a text under the key
IsText(k) == Has(AckedFields, k) /\ AckedFields[k].t = "string"

\* refreshToken has returned, and the socket was closed before it did
ReturnedClosed ==
    /\ refresh.pc = "returned"
    /\ closes = 1
    /\ ws \in {"closing", "closed"}
    /\ pendingAcks = {}
    /\ timers = {}

\* C27 as stated: refreshToken ends only by returning; it returns the text
\* perplexity_jwt of the ack, else the text jwt of the ack, and the current
\* token in every other case; the socket has been closed when it returns.
C27_RefreshReturnsToken ==
    /\ refresh.pc \in {"ready", "call", "returned"}
    /\ refresh.pc = "returned" =>
          /\ ReturnedClosed
          /\ refresh.value =
                IF IsText("perplexity_jwt") THEN AckedFields.perplexity_jwt.s
                ELSE IF IsText("jwt") THEN AckedFields.jwt.s
                ELSE CurrentJwt

\* C27, amended: refreshToken ends only by returning; with perplexity_jwt of
\* the ack if it is a text, else jwt of the ack if it is a text, as the
\* candidate, it returns the candidate if there is one and it is not empty,
\* and the current token in every other case; the socket has been closed
\* when it returns.
C27_RefreshReturnsNonEmptyToken ==
    /\ refresh.pc \in {"ready", "call", "returned"}
    /\ refresh.pc = "returned" =>
          /\ ReturnedClosed
          /\ refresh.value =
                IF IsText("perplexity_jwt")
                THEN (IF AckedFields.perplexity_jwt.s # ""
                      THEN AckedFields.perplexity_jwt.s ELSE CurrentJwt)
                ELSE IF IsText("jwt")
                THEN (IF AckedFields.jwt.s # "" THEN AckedFields.jwt.s ELSE CurrentJwt)
                ELSE CurrentJwt

\* refreshToken returned the perplexity_jwt of an ack that also had a jwt,
\* and the socket is closing
C27_Witness ==
    /\ refresh = [pc |-> "returned", value |-> "fresh"]
    /\ ready = ResolvedReady
    /\ promises = <<Resolved(JObject([perplexity_jwt |-> JString("fresh"),
                                      jwt |-> JString("new")]))>>
    /\ ws = "closing"
    /\ closes = 1

(***************************************************************************)
(* Replay of the payloads fed to an accumulator.                           *)
(***************************************************************************)
\* a fresh accumulator fed the first n payloads of fed, in order: its entry,
\* its answer and the updates it returned
RECURSIVE Replay(_)
Replay(n) ==
    IF n = 0 THEN [entry |-> NewEntry, answer |-> <<>>, updates |-> <<>>]
    ELSE LET r == Replay(n - 1)
             u == update(r.entry, r.answer, fed[n].incoming)
         IN  [entry |-> u.entry, answer |-> u.answer,
              updates |-> Append(r.updates, u)]

\* C28: after the updates U1 then U2 the entry of the accumulator is
\* mergeEntries(mergeEntries(empty, U1), U2), empty being the entry without
\* blocks; after any sequence of updates the entry, the answer and every
\* update returned are those of a fresh accumulator fed the same payloads in
\* the same order.
C28_ReplayDeterminism ==
    /\ Len(fed) = calls
    /\ calls = 1 => entry = mergeEntries([blocks |-> <<>>], fed[1].incoming)
    /\ calls = 2 =>
          entry = mergeEntries(mergeEntries([blocks |-> <<>>], fed[1].incoming),
                               fed[2].incoming)
    /\ LET r == Replay(calls)
       IN  /\ entry = r.entry
           /\ answer = r.answer
           /\ \A i \in 1..calls : fed[i].update = r.updates[i]
    /\ answer = extractAnswer(entry)

\* two updates were fed, the second of which changed the answer
C28_Witness ==
    /\ calls = 2
    /\ Len(fed) = 2
    /\ fed[2].update.answer # fed[1].update.answer
    /\ fed[1].update.answer # <<>>
    /\ fed[2].update.delta # fed[2].update.answer
    /\ entry = fed[2].update.entry

C30_HttpFailureSurfaced ==
    [][/\ \A r \in HttpResponses :
             Fetch(r) =>
                /\ requests = 0
                /\ requests' = 1
                /\ r.status \notin 200..299 =>
                      /\ pc' = "failed"
                      /\ error' = [name |-> "PerplexityApiError", status |-> r.status]
                      /\ emitted' = <<>>
                      /\ ~locked'
                /\ (r.status \in 200..299 /\ ~r.hasBody) =>
                      /\ pc' = "failed"
                      /\ error'.name = "PerplexityError"
                      /\ emitted' = <<>>
                      /\ ~locked'
       /\ requests' \in {requests, requests + 1}
       /\ requests' <= 1
       /\ pc = "failed" => UNCHANGED vars
      ]_vars

\* reconnect failed on a response with status 300 and a body: one request,
\* no update, nothing read
C30_Witness ==
    /\ method = "reconnect"
    /\ pc = "failed"
    /\ error = [name |-> "PerplexityApiError", status |-> 300]
    /\ requests = 1
    /\ emitted = <<>>
    /\ arrived = <<>>
    /\ ~locked

(***************************************************************************)
(* Properties of a call whose caller aborts it.                            *)
(***************************************************************************)
\* the update yielded last came from a payload that had arrived by the abort
YieldedArrivedBefore ==
    /\ log' # <<>>
    /\ log'[Len(log')].outcome = "yield"
    /\ log'[Len(log')].at <= signal.at

IsPatchBlock(i) ==
    LET b == last.incoming.blocks[i]
    IN  Has(b, "diff_block") /\ ~Has(b, "markdown_block")

\* the empty value the first operation of the i-th block calls for
EmptyFor(i) ==
    LET patches == last.incoming.blocks[i].diff_block.patches
    IN  IF patches # <<>> /\ patches[1].path # <<>> /\ Len(patches[1].path) >= 2
           /\ Head(patches[1].path) = ""
        THEN JObject(EmptyObj) ELSE JString("")

\* the target field of the i-th block was seen: the previous block has it
FieldSeen(i) ==
    PrevOf(i) # Undefined /\ Has(PrevOf(i), last.incoming.blocks[i].diff_block.field)

\* the previous block with the target field of the i-th block set to value
PrevWithField(i, value) ==
    LET b == last.incoming.blocks[i]
        prev == SpreadPrev(PrevOf(i))
    IN  [f \in DOMAIN prev \cup {"intended_usage", b.diff_block.field} |->
            IF f = b.diff_block.field THEN value
            ELSE IF f = "intended_usage" THEN b.intended_usage
            ELSE prev[f]]

\* C32 as stated: when the operations of a structural-patch block apply, the
\* merged block is the previous block with the target field set to the value
\* obtained by patching the previous block's value of that field whenever the
\* previous block has the field, and an empty value only when it has not.
C32_PatchesSeenValue ==
    (Called /\ Has(last.incoming, "blocks")) =>
        \A i \in 1..Len(last.incoming.blocks) :
            (IsPatchBlock(i) /\ ~PatchFails(i)) =>
                LET b == last.incoming.blocks[i]
                    from == IF FieldSeen(i) THEN PrevOf(i)[b.diff_block.field]
                            ELSE EmptyFor(i)
                    patched == applyPatch(from, b.diff_block.patches)
                IN  /\ patched.ok
                    /\ MapGet(BlocksUpTo(i), b.intended_usage)
                          = PrevWithField(i, patched.doc)

\* C32: the operations of a structural-patch block are applied to the
\* previous block's value of the target field when the previous block has the
\* field and its value is not null, and otherwise to an empty object if the
\* path of the first operation starts with "/" and to an empty string if not;
\* when they apply, the merged block for the key is the previous block with
\* the target field set to the patched value, every other field unchanged,
\* and the raw block is not stored; the last block merged is the one in the
\* entry.
C32_PatchesCurrentValue ==
    (Called /\ Has(last.incoming, "blocks")) =>
        /\ BlocksUpTo(Len(last.incoming.blocks)) = entry.blocks
        /\ \A i \in 1..Len(last.incoming.blocks) :
              IsPatchBlock(i) =>
                 LET b == last.incoming.blocks[i]
                     from == IF FieldSeen(i) /\ PrevOf(i)[b.diff_block.field] # JNull
                             THEN PrevOf(i)[b.diff_block.field]
                             ELSE EmptyFor(i)
                     patched == applyPatch(from, b.diff_block.patches)
                 IN  patched.ok =>
                        MapGet(BlocksUpTo(i), b.intended_usage)
                            = PrevWithField(i, patched.doc)

\* a patch whose test failed had left the raw instruction in a block without
\* the target field; a patch that adds a member was then applied to an empty
\* object: the block has the field, and the raw instruction is as it was
C32_Witness ==
    /\ Called
    /\ Has(last.incoming, "blocks") /\ Len(last.incoming.blocks) = 1
    /\ IsPatchBlock(1) /\ ~PatchFails(1)
    /\ PrevOf(1) # Undefined
    /\ ~FieldSeen(1)
    /\ Has(PrevOf(1), "diff_block")
    /\ MapGet(entry.blocks, DiffKey).content = JObject([k |-> JString("v")])
    /\ MapGet(entry.blocks, DiffKey).diff_block = PrevOf(1).diff_block
    /\ MapGet(entry.blocks, DiffKey).diff_block # last.incoming.blocks[1].diff_block

(***************************************************************************)
(* Properties of a structural-patch block one of whose operations fails.   *)
(***************************************************************************)
RECURSIVE AfterOperations(_, _, _)
\* the value after the first n operations of patches, applied one by one to
\* doc, as long as none has failed
AfterOperations(doc, patches, n) ==
    IF n = 0 THEN Applied(doc)
    ELSE LET r == AfterOperations(doc, patches, n - 1)
         IN  IF r.ok THEN applyOperation(r.doc, patches[n]) ELSE Thrown

\* the n-th operation of the i-th block of the last payload fails, those
\* before it having applied
OperationFails(i, n) ==
    LET b == last.incoming.blocks[i]
        from == CurrentValue(PrevOf(i), b.diff_block.field, b.diff_block.patches)
    IN  /\ AfterOperations(from, b.diff_block.patches, n - 1).ok
        /\ ~AfterOperations(from, b.diff_block.patches, n).ok

\* C33: when an operation of a structural-patch block fails, whether the
\* first or a later one, the merged block for the key holds in the target
\* field exactly what the previous block held there (nothing, when it had no
\* such field), so no effect of the operations that had applied shows; the
\* other fields of the previous block are kept as well, and the block
\* carries the raw patch instruction.
C33_PatchAllOrNothing ==
    (Called /\ Has(last.incoming, "blocks")) =>
        \A i \in 1..Len(last.incoming.blocks) :
            IsPatchBlock(i) =>
                \A n \in 1..Len(last.incoming.blocks[i].diff_block.patches) :
                    OperationFails(i, n) =>
                        LET b == last.incoming.blocks[i]
                            field == b.diff_block.field
                            merged == MapGet(BlocksUpTo(i), b.intended_usage)
                        IN  /\ Has(merged, field) = FieldSeen(i)
                            /\ FieldSeen(i) => merged[field] = PrevOf(i)[field]
                            /\ \A f \in DOMAIN SpreadPrev(PrevOf(i)) \ DOMAIN b :
                                  merged[f] = PrevOf(i)[f]
                            /\ merged.diff_block = b.diff_block
                            /\ BlocksUpTo(Len(last.incoming.blocks)) = entry.blocks

\* the target field held an object with the member i; the first operation
\* added the member j to the copy patched, the second, a test, failed: the
\* target field holds the object as it was
C33_Witness ==
    /\ Called
    /\ Has(last.incoming, "blocks") /\ Len(last.incoming.blocks) = 1
    /\ IsPatchBlock(1)
    /\ Len(last.incoming.blocks[1].diff_block.patches) = 2
    /\ OperationFails(1, 2)
    /\ PrevOf(1) # Undefined
    /\ PrevOf(1).content = JObject([i |-> JString("v")])
    /\ AfterOperations(PrevOf(1).content, last.incoming.blocks[1].diff_block.patches, 1)
          = Applied(JObject([i |-> JString("v"), j |-> JString("v")]))
    /\ MapGet(entry.blocks, DiffKey).content = JObject([i |-> JString("v")])

(***************************************************************************)
(* Properties of an answer field followed by chunks.                       *)
(***************************************************************************)
\* the least index of a set of indices that is not empty
Least(S) == CHOOSE i \in S : \A j \in S : i <= j

\* the index of the block of e whose markdown payload the answer is taken
\* from: the first block whose key contains "markdown" if that has text, else
\* the first block keyed ask_text if that has text (0: neither)
AnswerBlock(e) ==
    LET md  == {i \in 1..Len(e.blocks) : Qualifies(e.blocks[i])}
        txt == {i \in 1..Len(e.blocks) : IsAskText(e.blocks[i])}
    IN  IF md # {} /\ RuleText(e.blocks[Least(md)].markdown_block) # <<>>
        THEN Least(md)
        ELSE IF txt # {} /\ RuleText(e.blocks[Least(txt)].markdown_block) # <<>>
        THEN Least(txt)
        ELSE 0

\* the block carries a markdown payload with chunks and no answer field
ChunksOnly(b) ==
    /\ Has(b, "markdown_block")
    /\ Has(b.markdown_block, "chunks")
    /\ ~Has(b.markdown_block, "answer")

\* the last call met an entry whose answer came from a populated answer
\* field, and its payload carried chunks only, for that block only
ChunksAfterAnswer ==
    /\ Called
    /\ AnswerBlock(last.prevEntry) # 0
    /\ LET prev == last.prevEntry.blocks[AnswerBlock(last.prevEntry)]
       IN  /\ Has(prev.markdown_block, "answer")
           /\ prev.markdown_block.answer # <<>>
           /\ Has(last.incoming, "blocks")
           /\ last.incoming.blocks # <<>>
           /\ \A i \in 1..Len(last.incoming.blocks) :
                 /\ last.incoming.blocks[i].intended_usage = prev.intended_usage
                 /\ ChunksOnly(last.incoming.blocks[i])

\* C34: when the markdown payload the answer is taken from has a populated
\* answer field and an update carries only chunks for that block, the merged
\* block keeps the answer field, the answer of the update is that field (not
\* the chunks joined) and equals the answer before, and the delta is empty.
C34_AnswerFieldPersists ==
    ChunksAfterAnswer =>
        LET s == AnswerBlock(last.prevEntry)
            prev == last.prevEntry.blocks[s]
        IN  /\ entry.blocks[s].intended_usage = prev.intended_usage
            /\ Has(entry.blocks[s].markdown_block, "answer")
            /\ entry.blocks[s].markdown_block.answer = prev.markdown_block.answer
            /\ last.update.answer = prev.markdown_block.answer
            /\ last.update.answer = last.prevAnswer
            /\ answer = last.prevAnswer
            /\ last.update.delta = <<>>

\* the block held the answer "ab"; an update replaced its chunks by "a", "a":
\* the chunks are the new ones, the answer is still "ab" and the delta empty
C34_Witness ==
    /\ ChunksAfterAnswer
    /\ last.prevEntry.blocks[1].markdown_block.answer = <<"a", "b">>
    /\ last.incoming.blocks[1].markdown_block.chunks = << <<"a">>, <<"a">> >>
    /\ entry.blocks[1].markdown_block.chunks = << <<"a">>, <<"a">> >>
    /\ last.update.answer = <<"a", "b">>
    /\ last.update.delta = <<>>

(***************************************************************************)
(* Properties of the deltas of the updates of one accumulator.             *)
(***************************************************************************)
\* the deltas of the updates from the i-th to the last, written one after
\* the other
Written(i) == Join([k \in 1..(Len(fed) - i + 1) |-> fed[i + k - 1].update.delta])

\* the answer before the i-th update
AnswerBefore(i) == IF i = 1 THEN <<>> ELSE fed[i - 1].update.answer

\* the updates whose answer does not start with the answer before them
Rewrites == {i \in 1..Len(fed) : ~IsPrefixOf(AnswerBefore(i), fed[i].update.answer)}

\* C35 as stated: after any sequence of updates, the deltas of all updates,
\* written one after the other, are the current full answer.
C35_DeltasWriteAnswer ==
    fed # <<>> => Written(1) = answer

\* C35: the deltas written one after the other are the current full answer
\* as long as the answer of every update starts with the answer before it;
\* the delta of an update whose answer does not is its whole answer, so that
\* in general the current answer is what the deltas write from the last such
\* update on, that update included.
C35_DeltasWriteAnswerSinceRewrite ==
    fed # <<>> =>
        /\ Rewrites = {} => Written(1) = answer
        /\ \A i \in Rewrites :
              /\ fed[i].update.delta = fed[i].update.answer
              /\ (\A j \in Rewrites : j <= i) => Written(i) = answer
        /\ answer = fed[Len(fed)].update.answer

\* the answer was "b" and became "a": the deltas write "ba", the second alone
\* writes the answer
C35_Witness ==
    /\ Len(fed) = 2
    /\ fed[1].update.answer = <<"b">>
    /\ answer = <<"a">>
    /\ Rewrites = {2}
    /\ Written(1) = <<"b", "a">>
    /\ Written(2) = <<"a">>

(***************************************************************************)
(* Properties of the reading of an ack frame.                              *)
(***************************************************************************)
\* C36: after the handshake, a frame that a peer wrote as "43", the id N of
\* a pending call and the JSON text of a payload, whatever JSON value the
\* payload is, settles the call N, removes it from the table and leaves
\* every other call as it was.
C36_AckSettlesItsCall ==
    [][(/\ Receives
        /\ phase = 2
        /\ lastIn'.frame.head = "43"
        /\ Has(lastIn'.frame.payload, "json")
        /\ lastIn'.frame.id \in pendingAcks) =>
            LET n == lastIn'.frame.id
            IN  /\ promises'[n + 1] # Pending
                /\ pendingAcks' = pendingAcks \ {n}
                /\ timers' = timers \ {n}
                /\ \A i \in 1..Len(promises) : i # n + 1 => promises'[i] = promises[i]
      ]_vars

(***************************************************************************)
(* Properties of the ids of the calls of one socket.                       *)
(***************************************************************************)
\* the step is a call of emitWithAck
Emits == nextAckId' # nextAckId

\* C37: the id a call of emitWithAck gets is the number of calls made on the
\* socket before it (0, 1, 2, ... in call order), an id no call before it
\* had; the counter only grows; and an ack frame in which the handler reads
\* the id of a call that is no longer pending (timed out, say) settles no
\* call and leaves the table alone, whatever calls were made since.
C37_IdsNeverReused ==
    [][/\ Emits =>
             /\ lastIn' = [event |-> "emitWithAck", id |-> nextAckId]
             /\ nextAckId = Len(promises)
             /\ nextAckId' = nextAckId + 1
             /\ nextAckId \notin pendingAcks
             /\ promises' = Append(promises, Pending)
             /\ pendingAcks' = pendingAcks \cup {nextAckId}
       /\ nextAckId' >= nextAckId
       /\ Len(promises') = nextAckId'
       /\ pendingAcks' \subseteq 0..(nextAckId' - 1)
       /\ (/\ Receives
           /\ phase = 2
           /\ lastIn'.frame.head = "43"
           /\ AckId(lastIn'.frame) \notin pendingAcks) =>
                /\ promises' = promises
                /\ pendingAcks' = pendingAcks
                /\ timers' = timers
      ]_vars

\* the first call timed out, a second call was made, and then the ack of the
\* first arrived: the second call is still pending
C37_Witness ==
    /\ lastIn = [event |-> "message",
                 frame |-> AckFrame(0, [json |-> JObject([jwt |-> JString("new")])])]
    /\ promises = <<Rejected(<<"RPC timeout: ", "refreshJWT">>), Pending>>
    /\ pendingAcks = {1}
    /\ timers = {1}
    /\ nextAckId = 2

(***************************************************************************)
(* Properties of the life of a call, from emitWithAck to its settlement.   *)
(***************************************************************************)
\* the ids of the calls made so far
CallIds == 0..(nextAckId - 1)

\* the call with the id is not settled
Unsettled(id) == id \in CallIds /\ PromiseOf(id) = Pending

\* what settles a call in the step: the event handled and the outcome it
\* may give
SettledBy(outcome) ==
    \/ /\ lastIn'.event = "message"
       /\ phase = 2
       /\ lastIn'.frame.head = "43"
       /\ outcome = AckOutcome(lastIn'.frame)
    \/ /\ lastIn'.event = "rpcTimeout"
       /\ outcome = Rejected(<<"RPC timeout: ", "refreshJWT">>)
    \/ /\ lastIn'.event \in {"close", "close()"}
       /\ outcome = Rejected(<<"Socket closed">>)

\* C38: a call that is not settled has its id in the table and its timer
\* armed, a settled call has neither; a settled call stays as it was settled;
\* a call is settled by an ack in which its id is read (resolved, or rejected
\* when the ack carries an error or no JSON), by its timer, by the close of
\* the socket or by close(); and, timers firing in the end, every call made
\* is settled.
C38_SettledOnce ==
    /\ [](/\ pendingAcks = {id \in CallIds : PromiseOf(id) = Pending}
          /\ timers = pendingAcks
          /\ Len(promises) = nextAckId)
    /\ [][\A id \in CallIds :
             /\ ~Unsettled(id) => PromiseOf(id)' = PromiseOf(id)
             /\ (Unsettled(id) /\ PromiseOf(id)' # Pending) =>
                    /\ SettledBy(PromiseOf(id)')
                    /\ id \notin pendingAcks'
                    /\ id \notin timers'
      ]_vars
    /\ \A id \in 0..(MaxCalls - 1) : Unsettled(id) ~> (id \in CallIds /\ ~Unsettled(id))

\* two calls were made: the first was resolved by its ack, the second
\* rejected by its timer; the table is empty and no timer is armed
C38_Witness ==
    /\ promises = <<Resolved(JObject([jwt |-> JString("new")])),
                    Rejected(<<"RPC timeout: ", "refreshJWT">>)>>
    /\ pendingAcks = {}
    /\ timers = {}
    /\ nextAckId = 2
    /\ lastIn = [event |-> "rpcTimeout", id |-> 1]

(***************************************************************************)
(* Properties of the settlement of the ready promise.                      *)
(***************************************************************************)
\* the outcome the event handled in the step gives the ready promise, when
\* it is one of those that settle it
ReadyOutcome ==
    IF lastIn'.event = "message" /\ lastIn'.frame.head = "40" /\ phase = 1
    THEN ResolvedReady
    ELSE IF lastIn'.event = "message" /\ lastIn'.frame.head = "44"
    THEN Rejected(<<"Socket.IO connect error: ", lastIn'.frame.rest>>)
    ELSE IF lastIn'.event = "error" THEN Rejected(<<"WebSocket error">>)
    ELSE IF lastIn'.event = "close"
    THEN Rejected(<<"WebSocket closed during handshake">>)
    ELSE IF lastIn'.event = "timeout"
    THEN Rejected(<<"Socket.IO connection timeout">>)
    ELSE Pending

\* C39: while the ready promise is pending the connect timer is armed, so
\* that, the timer firing in the end, the promise is settled; the promise is
\* settled by the first join-ack after the open frame, connect-error frame,
\* socket error, socket close or timeout, with the outcome of that event,
\* and no later event changes it: a join-ack handled after the timeout
\* leaves it rejected.
C39_ReadySettledOnce ==
    /\ [](ready = Pending => timeout)
    /\ [][/\ ready # Pending => ready' = ready
          /\ (ready = Pending /\ ready' # Pending) =>
                /\ ready' = ReadyOutcome
                /\ ~timeout'
      ]_vars
    /\ (ready = Pending) ~> (ready # Pending)

\* the connect timer fired after the open frame, and the join-ack came after
\* it: the RPC handler is installed and the promise is still rejected
C39_Witness ==
    /\ ready = Rejected(<<"Socket.IO connection timeout">>)
    /\ lastIn = [event |-> "message", frame |-> JoinAck]
    /\ phase = 2
    /\ ~timeout

(***************************************************************************)
(* Properties of the errors of the decoder.                                *)
(***************************************************************************)
\* C40: an item taken off the queue whose trimmed text is the JSON text of a
\* value, whatever the value, is yielded or ends the sequence with a
\* PerplexityStreamError; the call fails on an item only with that error.
C40_OnlyStreamErrors ==
    /\ \A i \in 1..Len(log) :
          Has(Trim(arrived[log[i].at]), "json") =>
              log[i].outcome \in {"yield", "stream_error"}
    /\ (pc = "failed" /\ log # <<>> /\ log[Len(log)].outcome \notin {"skip", "yield"}) =>
          error.name = "PerplexityStreamError"

====
